---- MODULE Spec2Model ----
(***************************************************************************)
(* BabySip offline-first synchronisation: the sync queue and its drain     *)
(* (SyncService), the hybrid mutations and the pull from the cloud         *)
(* (DatabaseService), the real-time channel (RealTimeSyncService) and the  *)
(* REST backend (routes/bottles.js, routes/poops.js).                      *)
(*                                                                         *)
(* One device is modelled in detail; the other devices of the account act  *)
(* through the remote store and through real-time messages.                *)
(***************************************************************************)
EXTENDS Integers, Sequences, FiniteSets, TLC

(***************************************************************************)
(* Bounds of the model                                                     *)
(***************************************************************************)
\* queue items created in one behaviour (ids 1..MaxItems)
MaxItems == 2
\* real-time messages received in one behaviour
MaxMessages == 2
\* failed reconnect attempts counted in a row
MaxFailedRun == 6
\* initializations of the local store started in one behaviour
MaxInits == 3
\* subscriptions held at one time
MaxListeners == 3
\* the last millisecond of the clock
MaxClock == 4
\* ids generated in one behaviour
MaxIds == 4
\* WebSocket objects one device creates
MaxSockets == 3
\* relaunches of the app in one behaviour
MaxRelaunches == 1
\* messages one device writes to its sockets in one behaviour
MaxWire == 2
\* connections the WebSocket server accepts in one behaviour
MaxConns == 3
\* messages the WebSocket server handles in one behaviour
MaxWssMessages == 2

(***************************************************************************)
(* Program constants                                                       *)
(***************************************************************************)
\* "Remove after 3 failed failures"
RetryCeiling == 3
\* apiService.getBottles(20) / getPoops(20)
PullLimit == 20
\* RealTimeSyncService.maxReconnectAttempts
maxReconnectAttempts == 5
\* RealTimeSyncService.reconnectDelay (ms)
reconnectDelay == 1000

DefaultBottleColor == "#6366F1"
DefaultPoopColor == "#8B4513"

(***************************************************************************)
(* Value domains                                                           *)
(***************************************************************************)
BottleIds == {"b1"}
PoopIds == {"p1"}
Amounts == {"120", "150"}
Times == {"T1", "T2"}
Infos == {"null", "note"}
BottleColors == {DefaultBottleColor, "#FF0000"}
PoopColors == {DefaultPoopColor, "#00FF00"}

\* an absent row
NoRow == [absent |-> TRUE]
\* a key that was never written to AsyncStorage
NoValue == [present |-> FALSE, json |-> <<>>]

Slots == {1, 2}

\* what the network does to one request: delivered and answered, executed
\* by the server but the answer lost (timeout), or never delivered
NetOutcomes == {"ok", "lost", "neterr"}

Present(store) == {i \in DOMAIN store : store[i] # NoRow}

SeqToSet(s) == {s[i] : i \in 1..Len(s)}

\* variant: the filter keeps nothing
SelectSeqCleared(s, ids) == <<>>

RECURSIVE SelectSeqBy(_, _)
\* Array.prototype.filter: keeps the elements whose id is not in ids
SelectSeqBy(s, ids) ==
  IF s = <<>> THEN <<>>
  ELSE IF Head(s).id \in ids THEN SelectSeqBy(Tail(s), ids)
       ELSE <<Head(s)>> \o SelectSeqBy(Tail(s), ids)

\* field values are the strings of the JSON bodies; !x of JavaScript
Falsy(x) == x \in {"undefined", "null", "0", ""}

\* info || null
OrNull(x) == IF Falsy(x) THEN "null" ELSE x

(***************************************************************************)
(* Backend: routes/bottles.js and routes/poops.js over the tables of       *)
(* database.js (id TEXT PRIMARY KEY).  A handler returns the HTTP status   *)
(* and the table afterwards.                                               *)
(***************************************************************************)
\* POST /bottles
PostBottle(tbl, up, d) ==
  IF ~up THEN [status |-> 404, tbl |-> tbl]
  ELSE IF Falsy(d.id) \/ Falsy(d.amount) \/ Falsy(d.time)
  THEN [status |-> 400, tbl |-> tbl]
  ELSE IF tbl[d.id] # NoRow THEN [status |-> 500, tbl |-> tbl]
  ELSE [status |-> 201,
        tbl |-> [tbl EXCEPT ![d.id] =
                   [amount |-> d.amount, time |-> d.time,
                    color |-> IF d.color = "undefined" THEN DefaultBottleColor
                              ELSE d.color]]]

\* PUT /bottles/:bottleId
PutBottle(tbl, up, id, d) ==
  IF ~up THEN [status |-> 404, tbl |-> tbl]
  ELSE IF tbl[id] = NoRow THEN [status |-> 404, tbl |-> tbl]
  ELSE [status |-> 200,
        tbl |-> [tbl EXCEPT ![id] =
                   [amount |-> d.amount, time |-> d.time, color |-> d.color]]]

\* DELETE /bottles/:bottleId
DeleteBottle(tbl, up, id) ==
  IF ~up THEN [status |-> 404, tbl |-> tbl]
  ELSE IF tbl[id] = NoRow THEN [status |-> 404, tbl |-> tbl]
  ELSE [status |-> 200, tbl |-> [tbl EXCEPT ![id] = NoRow]]

\* POST /poops; a server without the poop routes answers 404
PostPoop(tbl, up, d) ==
  IF ~up THEN [status |-> 404, tbl |-> tbl]
  ELSE IF Falsy(d.id) \/ Falsy(d.time) THEN [status |-> 400, tbl |-> tbl]
  ELSE IF tbl[d.id] # NoRow THEN [status |-> 500, tbl |-> tbl]
  ELSE [status |-> 201,
        tbl |-> [tbl EXCEPT ![d.id] =
                   [time |-> d.time, info |-> OrNull(d.info),
                    color |-> IF d.color = "undefined" THEN DefaultPoopColor
                              ELSE d.color]]]

\* PUT /poops/:poopId
PutPoop(tbl, up, id, d) ==
  IF ~up THEN [status |-> 404, tbl |-> tbl]
  ELSE IF Falsy(d.time) THEN [status |-> 400, tbl |-> tbl]
  ELSE IF tbl[id] = NoRow THEN [status |-> 404, tbl |-> tbl]
  ELSE [status |-> 200,
        tbl |-> [tbl EXCEPT ![id] =
                   [time |-> d.time, info |-> OrNull(d.info),
                    color |-> IF d.color = "undefined" THEN DefaultPoopColor
                              ELSE d.color]]]

\* DELETE /poops/:poopId
DeletePoop(tbl, up, id) ==
  IF ~up THEN [status |-> 404, tbl |-> tbl]
  ELSE IF tbl[id] = NoRow THEN [status |-> 404, tbl |-> tbl]
  ELSE [status |-> 200, tbl |-> [tbl EXCEPT ![id] = NoRow]]

\* axios: what the caller of one request sees.  status 0 stands for an
\* error without response (network unreachable, timeout); a request that
\* was never delivered leaves the table alone.
Request(net, before, answer) ==
  IF net = "neterr" THEN [status |-> 0, tbl |-> before]
  ELSE IF net = "lost" THEN [status |-> 0, tbl |-> answer.tbl]
  ELSE answer

Succeeded(status) == status \in {200, 201}

(***************************************************************************)
(* State                                                                   *)
(***************************************************************************)
VARIABLES
  isOnline,        \* SyncService.syncStatus.isOnline
  isSyncing,       \* SyncService.syncStatus.isSyncing
  syncQueue,       \* SyncService.syncQueue
  storedQueue,     \* AsyncStorage key 'syncQueue' (JSON text)
  drains,          \* activations of SyncService.sync(), by slot
  nextItemId,      \* source of fresh queue-item ids
  hybrid,          \* hybrid mutation waiting on "await addToSyncQueue"
  entries,         \* local SQLite table entries (feeding records)
  poop,            \* local SQLite table poop (diaper records)
  bottles,         \* remote table bottles
  poops,           \* remote table poops
  poopApi,         \* the server mounts the /poops routes
  bottleApi,       \* the server mounts the /bottles routes
  usedIds,         \* record ids IDService has generated
  isConnected,     \* RealTimeSyncService.status.isConnected
  rtSent,          \* real-time messages written to the socket
  rtReceived,      \* real-time messages received from the socket
  delivered,       \* messages handed to the message listeners
  sessionDeviceId, \* RealTimeSyncService.sessionDeviceId
  ownReceived,     \* history: received messages that carried the own device id
  ownEffects,      \* history: those of them that reached a listener, a pull or the store
  pulls,           \* activations of DatabaseService.syncFromCloud(), by slot
  syncCompleted,   \* CLOUD_SYNC_COMPLETED events emitted
  listNotFound,    \* history: the last list request of a pull was answered 404
  sentInBusy,      \* history: items sent since the busy flag was last raised
  dupSend,         \* history: an item was sent twice in one busy period
  failures,        \* history: failed remote failures per queue item
  cut,             \* history: items whose pass was killed or detached
  reentered,       \* history: sync() returned at its busy check in this busy period
  restarted,       \* history: the last step was a restart of the process
  offlineCall,     \* history: a hybrid mutation issued a remote call offline
  returned,        \* what the last hybrid mutation returned to its caller
  emitted,         \* change events emitted by the hybrid mutation in progress
  ws,              \* RealTimeSyncService.ws: "none", "connecting" or "open"
  reconnectAttempts, \* RealTimeSyncService.status.reconnectAttempts
  reconnectTimeout,  \* delay (ms) of the pending reconnect timer, 0 if none
  reconnecting,    \* a reconnect callback is awaiting the token or the profile
  error,           \* RealTimeSyncService.status.error
  attempt,         \* history: the socket in progress was created by a reconnect attempt
  failedRun,       \* history: consecutive failed reconnect attempts since the last open
  disconnected,    \* history: disconnect() was called and initialize() not since
  isInitializing,  \* DatabaseService.isInitializing
  db,              \* DatabaseService.db: "null" or "open"
  callers,         \* activations of DatabaseService.initDatabase(), by caller
  initCount,       \* history: initializations started
  outcome,         \* history: what each initialization returned
  created,         \* history: runs of createTables per initialization
  listeners,       \* EventEmitter.listeners, in subscription order
  subscribed,      \* history: the listeners at the moment of the last emit
  invoked,         \* history: the listeners the last emit invoked, in order
  emitThrew,       \* history: the last emit threw
  clock,           \* Date.now() on this device (ms)
  lastTimestamp,   \* IDService.lastTimestamp
  counter,         \* IDService.counter
  generated,       \* history: the ids generateUniqueId returned, in order
  loggedOut,       \* history: AuthService.logout() has returned
  socks,           \* the WebSocket objects the device has created, in order
  cur,             \* RealTimeSyncService.ws as an index into socks, 0 for null
  clients,         \* the server's clients map: the sockets it holds for the device
  closing,         \* sockets the server has closed (1000), onclose not yet run
  devStored,       \* AsyncStorage key 'realTimeSessionDeviceId', "null" if unset
  devOps,          \* requests to AsyncStorage not yet settled, oldest first
  devCalls,        \* activations of RealTimeSyncService.getDeviceId(), by caller
  presented,       \* history: the device ids placed in a handshake or a message
  devRestarts,     \* history: relaunches of the app
  wire,            \* the messages the device has written to its sockets, in order
  draws,           \* calls of Math.random() made for message ids
  sendPc,          \* sendRealTimeMessage: "idle" or "awaiting" the profile
  sendOutcome,     \* history: how the last sendRealTimeMessage ended
  wssConns,        \* the connections the WebSocket server has accepted, in order
  wssSender,       \* history: the connection whose message was handled last
  wssRecipients,   \* history: the connections that message was sent to
  wssMessages,     \* history: messages the server has handled
  columns,         \* local tables: the table has the sync_status column
  migrated,        \* createTables and runMigrations have run on the local database
  hasInitialSync,  \* AsyncStorage key 'hasInitialSync', "null" if unset
  screen,          \* DashboardScreen.initializeScreen: its position and its pull
  startPull        \* history: how the pull of the last initializeScreen ended

syncVars == <<isOnline, isSyncing, syncQueue, storedQueue, drains, nextItemId,
              hybrid, sentInBusy, dupSend, failures, cut, reentered, restarted,
              offlineCall>>
localVars == <<entries, poop, usedIds>>
remoteVars == <<bottles, poops, poopApi, bottleApi>>
rtVars == <<isConnected, rtSent, rtReceived, delivered, sessionDeviceId,
           ownReceived, ownEffects>>
pullVars == <<pulls, syncCompleted, listNotFound>>
callVars == <<returned, emitted>>
sockVars == <<ws, reconnectAttempts, reconnectTimeout, reconnecting, error,
             attempt, failedRun, disconnected>>
initVars == <<isInitializing, db, callers, initCount, outcome, created>>
emitVars == <<listeners, subscribed, invoked, emitThrew>>
idVars == <<clock, lastTimestamp, counter, generated>>
connVars == <<socks, cur, clients, closing>>
devVars == <<devStored, devOps, devCalls, presented, devRestarts>>
sendVars == <<wire, draws, sendPc, sendOutcome>>
wssVars == <<wssConns, wssSender, wssRecipients, wssMessages>>
schemaVars == <<columns, migrated>>
screenVars == <<hasInitialSync, screen, startPull>>
lateVars == <<connVars, devVars, sendVars, wssVars, schemaVars, screenVars>>
utilVars == <<emitVars, idVars, loggedOut, lateVars>>
vars == <<syncVars, localVars, remoteVars, rtVars, pullVars, callVars, sockVars,
          initVars, utilVars>>

ItemIds == 1..MaxItems

IdleDrain == [active |-> FALSE]
IdlePull == [active |-> FALSE]
\* a message starts at most one pull
PullSlots == 1..MaxMessages

ActiveDrains == {s \in Slots : drains[s].active}

(***************************************************************************)
(* Persistence of the queue: JSON.stringify / JSON.parse                   *)
(***************************************************************************)
\* JSON.stringify of one SyncItem: keys whose value is undefined are omitted
StringifyItem(item) ==
  <<item.id, item.type, item.action,
    {<<k, item.data[k]>> : k \in {x \in DOMAIN item.data : item.data[x] # "undefined"}},
    item.retryCount>>

\* variant: the reload starts every item with a fresh retryCount
ParseItemFreshRetry(js) ==
  [id |-> js[1], type |-> js[2], action |-> js[3],
   data |-> [k \in {p[1] : p \in js[4]} |-> (CHOOSE p \in js[4] : p[1] = k)[2]],
   retryCount |-> 0]

\* JSON.parse of one SyncItem
ParseItem(js) ==
  [id |-> js[1], type |-> js[2], action |-> js[3],
   data |-> [k \in {p[1] : p \in js[4]} |-> (CHOOSE p \in js[4] : p[1] = k)[2]],
   retryCount |-> js[5]]

\* variant: the write fails and the error is swallowed
saveSyncQueueSkipped(queue) == NoValue

\* saveSyncQueue: AsyncStorage.setItem('syncQueue', JSON.stringify(queue))
saveSyncQueue(queue) ==
  [present |-> TRUE, json |-> [i \in 1..Len(queue) |-> StringifyItem(queue[i])]]

\* loadSyncQueue: the queue it leaves in memory, given the one it found
loadSyncQueue(stored, current) ==
  IF ~stored.present THEN current
  ELSE [i \in 1..Len(stored.json) |-> ParseItem(stored.json[i])]

(***************************************************************************)
(* SyncService: replay of one queue item                                   *)
(***************************************************************************)
\* item.data.<k>: a key that is not in the payload reads as undefined
Field(d, k) == IF k \in DOMAIN d THEN d[k] ELSE "undefined"

\* outcomes after which processSyncItem returns normally
\* the same without the 404 of a delete
ReturnedUnless404 == {"ok", "fallbackOk", "skipped"}
Returned == {"ok", "fallbackOk", "notFound", "skipped"}

\* variant: the error of the fallback create is swallowed
FallbackSwallowed(status) == "fallbackOk"

\* the feeding create issued after a 404 to the update: its error propagates
FallbackOutcome(status) ==
  IF Succeeded(status) THEN "fallbackOk" ELSE "fallbackFail"

\* processBottleSync; n1, n2 are the fates of its first and second request
processBottleSync(item, tbl, up, n1, n2) ==
  LET d == item.data
      body == [id |-> d.id, amount |-> Field(d, "amount"),
               time |-> Field(d, "time"), color |-> Field(d, "color")]
  IN CASE item.action \in {"add", "create"} ->
            LET r == Request(n1, tbl, PostBottle(tbl, up, body))
            IN [how |-> IF Succeeded(r.status) THEN "ok"
                        ELSE IF r.status = 0 THEN "fail" ELSE "rejected",
                tbl |-> r.tbl]
       [] item.action = "update" ->
            LET r1 == Request(n1, tbl, PutBottle(tbl, up, d.id, body))
            IN IF r1.status = 404
               THEN LET r2 == Request(n2, r1.tbl, PostBottle(r1.tbl, up, body))
                    IN [how |-> FallbackOutcome(r2.status), tbl |-> r2.tbl]
               ELSE [how |-> IF Succeeded(r1.status) THEN "ok" ELSE "fail",
                     tbl |-> r1.tbl]
       [] item.action = "delete" ->
            LET r == Request(n1, tbl, DeleteBottle(tbl, up, d.id))
            IN [how |-> IF Succeeded(r.status) THEN "ok"
                        ELSE IF r.status = 404 THEN "notFound" ELSE "fail",
                tbl |-> r.tbl]

\* processPoopSync
processPoopSync(item, tbl, up, n1, n2) ==
  LET d == item.data
      body == [id |-> d.id, time |-> Field(d, "time"),
               info |-> Field(d, "info"), color |-> Field(d, "color")]
  IN CASE item.action \in {"add", "create"} ->
            LET r == Request(n1, tbl, PostPoop(tbl, up, body))
            IN [how |-> IF Succeeded(r.status) THEN "ok"
                        ELSE IF r.status = 404 THEN "skipped"
                        ELSE IF r.status = 0 THEN "fail" ELSE "rejected",
                tbl |-> r.tbl]
       [] item.action = "update" ->
            LET r1 == Request(n1, tbl, PutPoop(tbl, up, d.id, body))
            IN IF r1.status = 404
               THEN LET r2 == Request(n2, r1.tbl, PostPoop(r1.tbl, up, body))
                    IN [how |-> IF Succeeded(r2.status) THEN "fallbackOk"
                                ELSE IF r2.status = 404 THEN "skipped"
                                ELSE "fallbackFail",
                        tbl |-> r2.tbl]
               ELSE [how |-> IF Succeeded(r1.status) THEN "ok" ELSE "fail",
                     tbl |-> r1.tbl]
       [] item.action = "delete" ->
            LET r == Request(n1, tbl, DeletePoop(tbl, up, d.id))
            IN [how |-> IF Succeeded(r.status) THEN "ok"
                        ELSE IF r.status = 404 THEN "notFound" ELSE "fail",
                tbl |-> r.tbl]

\* processSyncItem: dispatch on the item type
processSyncItem(item, btl, bup, pps, up, n1, n2) ==
  IF item.type = "bottle"
  THEN LET r == processBottleSync(item, btl, bup, n1, n2)
       IN [how |-> r.how, bottles |-> r.tbl, poops |-> pps]
  ELSE LET r == processPoopSync(item, pps, up, n1, n2)
       IN [how |-> r.how, bottles |-> btl, poops |-> r.tbl]

(***************************************************************************)
(* SyncService.sync(): the drain                                           *)
(***************************************************************************)
\* variant: the busy flag is not consulted
SyncGuardNoBusy(syncing, online, queue) ==
  ~(~online \/ Len(queue) = 0)

\* the early return of sync(), negated
SyncGuard(syncing, online, queue) ==
  ~(syncing \/ ~online \/ Len(queue) = 0)

FreeSlots(d) == {s \in Slots : ~d[s].active}

MinOf(S) == CHOOSE x \in S : \A y \in S : x <= y

\* const itemsToSync = [...this.syncQueue]; const successfulItems = [];
\* how records the outcome of the item processed last (items[idx - 1])
NewDrain(queue) ==
  [active |-> TRUE, items |-> queue, idx |-> 1, successful |-> {},
   detached |-> FALSE, phase |-> "loop", how |-> "none"]

\* one invocation of sync() up to its first await, on the pair
\* st = [syncing, drains]
sync(st, online, queue) ==
  IF SyncGuard(st.syncing, online, queue) /\ FreeSlots(st.drains) # {}
  THEN [syncing |-> TRUE,
        drains |-> [st.drains EXCEPT ![MinOf(FreeSlots(st.drains))] = NewDrain(queue)]]
  ELSE st

\* variant: a failed item is dropped at once
GivenUpAtOnce(retryCount) == TRUE

\* "if (item.retryCount >= 3)" after the increment
GivenUp(retryCount) == retryCount >= RetryCeiling

\* item.retryCount++ on the object with this id
Bump(items, id) ==
  [i \in 1..Len(items) |->
     IF items[i].id = id
     THEN [items[i] EXCEPT !.retryCount = items[i].retryCount + 1]
     ELSE items[i]]

\* history of the items a pass has sent
SentAfterSync(st0, st1) ==
  IF st1.drains # st0.drains /\ \A s \in Slots : ~st0.drains[s].active
  THEN {} ELSE sentInBusy

\* values a user enters in the forms
NewAmounts == {"120"}
EditAmounts == {"150"}
UserTimes == {"T1"}
UserInfos == {"note"}
UserBottleColors == {DefaultBottleColor}
UserPoopColors == {"#00FF00"}

\* a request issued while the device has no connectivity is never delivered
Fates == IF isOnline THEN NetOutcomes ELSE {"neterr"}

\* the for-loop body of sync() for the next item of the snapshot, followed,
\* after the last item, by the filter and the save of the queue
ProcessItemSaving(s, saved) ==
  /\ drains[s].active /\ drains[s].phase = "loop"
  /\ LET d == drains[s]
         item == d.items[d.idx]
     IN \E n1 \in Fates, n2 \in Fates :
          LET res == processSyncItem(item, bottles, bottleApi, poops, poopApi, n1, n2)
              ok == res.how \in Returned
              abandoned == ~ok /\ GivenUp(item.retryCount + 1)
              succ == IF ok \/ abandoned THEN d.successful \cup {item.id}
                      ELSE d.successful
              queue1 == IF ~ok /\ ~d.detached THEN Bump(syncQueue, item.id)
                        ELSE syncQueue
              last == d.idx = Len(d.items)
              queue2 == IF last THEN SelectSeqBy(queue1, succ) ELSE queue1
          IN /\ bottles' = res.bottles
             /\ poops' = res.poops
             /\ syncQueue' = queue2
             /\ storedQueue' = IF last /\ saved THEN saveSyncQueue(queue2)
                              ELSE storedQueue
             /\ drains' = [t \in Slots |->
                   IF t = s
                   THEN [d EXCEPT !.items = IF ok THEN @ ELSE Bump(@, item.id),
                                  !.idx = @ + 1,
                                  !.successful = succ,
                                  !.how = res.how,
                                  !.phase = IF last THEN "saving" ELSE "loop"]
                   ELSE IF drains[t].active /\ ~drains[t].detached /\ ~d.detached /\ ~ok
                        THEN [drains[t] EXCEPT !.items = Bump(@, item.id)]
                        ELSE drains[t]]
             /\ failures' = [failures EXCEPT ![item.id] =
                               IF ok \/ @ > RetryCeiling THEN @ ELSE @ + 1]
             /\ dupSend' = (dupSend \/ item.id \in sentInBusy)
             /\ sentInBusy' = sentInBusy \cup {item.id}
  /\ restarted' = FALSE
  /\ UNCHANGED <<utilVars, sockVars, initVars, callVars, isOnline, isSyncing, nextItemId, hybrid, cut, reentered,
                 offlineCall, poopApi, bottleApi, localVars, rtVars, pullVars>>

\* the same with AsyncStorage accepting the write of saveSyncQueue
ProcessItem(s) == ProcessItemSaving(s, TRUE)

\* the finally block of sync(), after "await this.saveSyncQueue()"
\* variant: the flag is left as the pass found it
finallyKeeps(syncing) == syncing

\* finally { this.syncStatus.isSyncing = false }
finally(syncing) == FALSE

SyncFinish(s) ==
  /\ drains[s].active /\ drains[s].phase = "saving"
  /\ isSyncing' = finally(isSyncing)
  /\ drains' = [drains EXCEPT ![s] = IdleDrain]
  /\ reentered' = FALSE
  /\ restarted' = FALSE
  /\ UNCHANGED <<utilVars, sockVars, initVars, callVars, isOnline, syncQueue, storedQueue, nextItemId, hybrid,
                 sentInBusy, dupSend, failures, cut, offlineCall,
                 localVars, remoteVars, rtVars, pullVars>>

\* a caller invokes sync(): syncDebug.forceSync, the sync callback of
\* ServiceInterfaces
SyncCall ==
  /\ isOnline
  /\ LET st0 == [syncing |-> isSyncing, drains |-> drains]
         st1 == sync(st0, isOnline, syncQueue)
     IN /\ isSyncing' = st1.syncing
        /\ drains' = st1.drains
        /\ sentInBusy' = SentAfterSync(st0, st1)
  /\ reentered' = (reentered \/ isSyncing)
  /\ restarted' = FALSE
  /\ UNCHANGED <<utilVars, sockVars, initVars, callVars, isOnline, syncQueue, storedQueue, nextItemId, hybrid,
                 dupSend, failures, cut, offlineCall, localVars, remoteVars,
                 rtVars, pullVars>>

\* the NetInfo listener of initializeSync
NetInfoChange(connected) ==
  /\ connected # isOnline
  /\ isOnline' = connected
  /\ LET st0 == [syncing |-> isSyncing, drains |-> drains]
         st1 == IF connected THEN sync(st0, connected, syncQueue) ELSE st0
     IN /\ isSyncing' = st1.syncing
        /\ drains' = st1.drains
        /\ sentInBusy' = SentAfterSync(st0, st1)
  /\ reentered' = (reentered \/ (connected /\ isSyncing))
  /\ restarted' = FALSE
  /\ UNCHANGED <<utilVars, sockVars, initVars, callVars, syncQueue, storedQueue, nextItemId, hybrid,
                 dupSend, failures, cut, offlineCall, localVars, remoteVars,
                 rtVars, pullVars>>

(***************************************************************************)
(* SyncService.addToSyncQueue and the hybrid mutations of DatabaseService  *)
(***************************************************************************)
\* addToSyncQueue up to "await this.saveSyncQueue()": the new SyncItem
NewItem(type, action, data) ==
  [id |-> nextItemId, type |-> type, action |-> action, data |-> data,
   retryCount |-> 0]

\* variant: every mutation announces itself as a sync request
ChangeEventRequested(type, action) == "SYNC_REQUESTED"

\* the event a local write emits once its statement has run; updatePoop
\* emits SYNC_REQUESTED
ChangeEvent(type, action) ==
  CASE type = "bottle" /\ action = "create" -> "BOTTLE_ADDED"
    [] type = "bottle" /\ action = "update" -> "BOTTLE_UPDATED"
    [] type = "bottle" /\ action = "delete" -> "BOTTLE_DELETED"
    [] type = "poop" /\ action = "create" -> "POOP_ADDED"
    [] type = "poop" /\ action = "update" -> "SYNC_REQUESTED"
    [] OTHER -> "POOP_DELETED"

\* variant: success is reported whatever the local write did
HybridResultAlways(written) == "true"

\* "if (!bottleId) return false" ... "return true" of the hybrid mutations
HybridResult(written) == IF written THEN "true" ELSE "false"

\* the local write of a hybrid mutation followed by addToSyncQueue up to
\* its await: push, then JSON.stringify of the queue for AsyncStorage
Enqueue(type, action, data) ==
  /\ hybrid = "none"
  /\ returned' = "pending"
  /\ emitted' = <<ChangeEvent(type, action)>>
  /\ nextItemId <= MaxItems
  /\ syncQueue' = Append(syncQueue, NewItem(type, action, data))
  /\ storedQueue' = saveSyncQueue(syncQueue')
  /\ nextItemId' = nextItemId + 1
  /\ hybrid' = type
  /\ restarted' = FALSE
  /\ UNCHANGED <<isOnline, isSyncing, drains, sentInBusy, dupSend, failures,
                 cut, reentered, offlineCall, remoteVars, rtVars, pullVars,
                 sockVars, initVars, utilVars>>

\* addBottleHybrid: addBottle (INSERT ... 'pending'), then the enqueue
AddBottleHybrid ==
  \E id \in BottleIds \ usedIds, a \in NewAmounts, t \in UserTimes,
     c \in UserBottleColors :
    /\ entries' = [entries EXCEPT ![id] =
                     [amount |-> a, time |-> t, color |-> c,
                      sync_status |-> "pending"]]
    /\ usedIds' = usedIds \cup {id}
    /\ poop' = poop
    /\ Enqueue("bottle", "create",
               [id |-> id, amount |-> a, time |-> t, color |-> c])

\* updateBottleHybrid: updateBottle (UPDATE entries SET amount, time, color)
UpdateBottleHybrid ==
  \E id \in Present(entries), a \in EditAmounts, t \in UserTimes,
     c \in UserBottleColors :
    /\ entries' = [entries EXCEPT ![id] =
                     [@ EXCEPT !.amount = a, !.time = t, !.color = c]]
    /\ UNCHANGED <<poop, usedIds>>
    /\ Enqueue("bottle", "update",
               [id |-> id, amount |-> a, time |-> t, color |-> c])

\* deleteBottleHybrid: deleteBottle (DELETE FROM entries)
DeleteBottleHybrid ==
  \E id \in Present(entries) :
    /\ entries' = [entries EXCEPT ![id] = NoRow]
    /\ UNCHANGED <<poop, usedIds>>
    /\ Enqueue("bottle", "delete", [id |-> id])

\* addPoopHybrid: addPoop (INSERT ... 'pending'), then the enqueue
AddPoopHybrid ==
  \E id \in PoopIds \ usedIds, t \in UserTimes, n \in UserInfos,
     c \in UserPoopColors :
    /\ poop' = [poop EXCEPT ![id] =
                  [time |-> t, info |-> n, color |-> c,
                   sync_status |-> "pending"]]
    /\ usedIds' = usedIds \cup {id}
    /\ entries' = entries
    /\ Enqueue("poop", "create",
               [id |-> id, time |-> t, info |-> n, color |-> c])

\* updatePoopHybrid: updatePoop (UPDATE poop SET time, info); the payload
\* carries no color
UpdatePoopHybrid ==
  \E id \in Present(poop), t \in UserTimes, n \in UserInfos :
    /\ poop' = [poop EXCEPT ![id] = [@ EXCEPT !.time = t, !.info = n]]
    /\ UNCHANGED <<entries, usedIds>>
    /\ Enqueue("poop", "update", [id |-> id, time |-> t, info |-> n])

\* deletePoopHybrid: deletePoop (DELETE FROM poop)
DeletePoopHybrid ==
  \E id \in Present(poop) :
    /\ poop' = [poop EXCEPT ![id] = NoRow]
    /\ UNCHANGED <<entries, usedIds>>
    /\ Enqueue("poop", "delete", [id |-> id])

\* a hybrid mutation whose local write fails (initDatabase false or the
\* statement throws): the local method returns null / false, the hybrid
\* method returns at its first check
LocalWriteFails ==
  /\ hybrid = "none"
  /\ returned' = HybridResult(FALSE)
  /\ emitted' = <<>>
  /\ UNCHANGED <<syncVars, localVars, remoteVars, rtVars, pullVars, sockVars,
                 initVars, utilVars>>

\* variant: the connectivity is not consulted
HybridAlways(online) == TRUE

\* "if (syncService && syncService.isOnline())" of the hybrid mutations
HybridOnline(online) == online

\* the rest of a hybrid mutation once saveSyncQueue has resolved: the tail
\* of addToSyncQueue (sync() if online), then sync() and
\* sendRealTimeMessage('SYNC_REQUESTED') if online
HybridResume ==
  /\ hybrid # "none"
  /\ hybrid' = "none"
  /\ returned' = HybridResult(TRUE)
  /\ emitted' = <<>>
  /\ LET st0 == [syncing |-> isSyncing, drains |-> drains]
         st1 == IF isOnline THEN sync(st0, isOnline, syncQueue) ELSE st0
         st2 == IF HybridOnline(isOnline) THEN sync(st1, isOnline, syncQueue)
                ELSE st1
         \* sendRealTimeMessage: nothing without a socket, else getProfile
         profiles == HybridOnline(isOnline) /\ isConnected
     IN /\ isSyncing' = st2.syncing
        /\ drains' = st2.drains
        /\ sentInBusy' = SentAfterSync(st0, st2)
        /\ reentered' = (\/ reentered
                         \/ (isOnline /\ st0.syncing)
                         \/ (HybridOnline(isOnline) /\ st1.syncing))
        /\ offlineCall' = (\/ offlineCall
                           \/ (~isOnline /\ (profiles \/ st2.drains # st0.drains)))
        /\ \E profile \in Fates :
             rtSent' = IF profiles /\ profile = "ok" THEN rtSent + 1 ELSE rtSent
  /\ restarted' = FALSE
  /\ UNCHANGED <<isOnline, syncQueue, storedQueue, nextItemId,
                 dupSend, failures, cut, localVars, remoteVars,
                 isConnected, rtReceived, delivered, sessionDeviceId,
                 ownReceived, ownEffects, pullVars, sockVars, initVars, utilVars>>

(***************************************************************************)
(* Process restart and re-initialisation                                   *)
(***************************************************************************)
\* the items of the passes that have not reached their save
InFlightItems ==
  UNION {{drains[s].items[i].id : i \in 1..Len(drains[s].items)} :
           s \in {t \in Slots : drains[t].active /\ drains[t].phase = "loop"}}

\* the process is killed and started again: the constructor state, then
\* initializeSync up to loadSyncQueue
Restart ==
  /\ syncQueue' = loadSyncQueue(storedQueue, <<>>)
  /\ isOnline' = FALSE
  /\ isSyncing' = FALSE
  /\ drains' = [s \in Slots |-> IdleDrain]
  /\ hybrid' = "none"
  /\ isConnected' = FALSE
  /\ pulls' = [s \in PullSlots |-> IdlePull]
  /\ cut' = cut \cup InFlightItems
  /\ sentInBusy' = {}
  /\ reentered' = FALSE
  /\ restarted' = TRUE
  /\ sessionDeviceId' = "null"
  /\ returned' = "none"
  /\ emitted' = <<>>
  /\ UNCHANGED <<storedQueue, nextItemId, dupSend, failures, offlineCall, localVars,
                 remoteVars, rtSent, rtReceived, delivered, ownReceived,
                 ownEffects, syncCompleted, listNotFound, sockVars, initVars, utilVars>>

\* initializeAfterAuth: initializeSync runs again and reloads the queue;
\* the passes in flight keep the objects of the old array
Reinitialize ==
  /\ syncQueue' = loadSyncQueue(storedQueue, syncQueue)
  /\ drains' = [s \in Slots |->
                  IF drains[s].active THEN [drains[s] EXCEPT !.detached = TRUE]
                  ELSE drains[s]]
  /\ cut' = cut \cup InFlightItems
  /\ restarted' = FALSE
  /\ UNCHANGED <<utilVars, sockVars, initVars, callVars, isOnline, isSyncing, storedQueue, nextItemId, hybrid,
                 sentInBusy, dupSend, failures, reentered, offlineCall,
                 localVars, remoteVars,
                 rtVars, pullVars>>

(***************************************************************************)
(* RealTimeSyncService: the socket                                         *)
(***************************************************************************)
\* the id persisted under 'realTimeSessionDeviceId' for this install
OwnDeviceId == "devA"
\* the id SyncService persists under 'sessionDeviceId'
SyncDeviceId == "syncA"
\* another device of the account
OtherDeviceId == "devB"

\* getDeviceId: the id in memory, else the persisted one
getDeviceId(current) == IF current = "null" THEN OwnDeviceId ELSE current

\* connect() up to ws.onopen
SocketOpen ==
  /\ isOnline /\ ~isConnected
  /\ isConnected' = TRUE
  /\ sessionDeviceId' = getDeviceId(sessionDeviceId)
  /\ UNCHANGED <<utilVars, sockVars, initVars, callVars, syncVars, localVars, remoteVars, rtSent, rtReceived,
                 delivered, ownReceived, ownEffects, pullVars>>

\* ws.onclose -> handleDisconnection
SocketClose ==
  /\ isConnected
  /\ isConnected' = FALSE
  /\ UNCHANGED <<utilVars, sockVars, initVars, callVars, syncVars, localVars, remoteVars, rtSent, rtReceived,
                 delivered, sessionDeviceId, ownReceived, ownEffects, pullVars>>

(***************************************************************************)
(* DatabaseService.syncFromCloud: the pull                                 *)
(***************************************************************************)
RecordIds == BottleIds \cup PoopIds

\* ORDER BY time DESC of the GET routes
TimeRank(t) == IF t = "T1" THEN 1 ELSE 2

\* GET /bottles?limit=n, GET /poops?limit=n: the n most recent rows
GetRows(tbl, n) ==
  IF Cardinality(Present(tbl)) <= n THEN tbl
  ELSE LET kept == CHOOSE S \in SUBSET Present(tbl) :
                     /\ Cardinality(S) = n
                     /\ \A i \in S, j \in Present(tbl) \ S :
                          TimeRank(tbl[i].time) >= TimeRank(tbl[j].time)
       IN [i \in DOMAIN tbl |-> IF i \in kept THEN tbl[i] ELSE NoRow]

FreePullSlots(pl) == {s \in PullSlots : ~pl[s].active}

NewPull ==
  [active |-> TRUE, pc |-> "getBottles",
   cloudBottles |-> [i \in BottleIds |-> NoRow],
   cloudPoops |-> [i \in PoopIds |-> NoRow],
   localBottles |-> {}, localPoops |-> {},
   deleted |-> [i \in RecordIds |-> 0],
   dirty |-> FALSE]

\* syncFromCloud up to its first request: nothing happens offline
syncFromCloud(pl, online) ==
  IF online /\ FreePullSlots(pl) # {}
  THEN [pl EXCEPT ![MinOf(FreePullSlots(pl))] = NewPull]
  ELSE pl

\* history: the pulls in flight other than s saw the local store change
Dirtied(pl, s, changed) ==
  [t \in PullSlots |->
     IF t # s /\ pl[t].active /\ changed THEN [pl[t] EXCEPT !.dirty = TRUE]
     ELSE pl[t]]

\* variant: SyncService passes the change events of a pull on
setupEventListenersAll == {"CLOUD_SYNC_COMPLETED", "BOTTLE_DELETED", "POOP_DELETED"}

\* SyncService.setupEventListeners: the local change events SyncService
\* subscribes to in order to pass them on to the other devices (none)
setupEventListeners == {}

\* the real-time messages written once the listeners of the change events
\* have run
AfterEvents(events, connected, sent) ==
  IF connected /\ events \cap setupEventListeners # {} THEN sent + 1 ELSE sent

\* getProfile, then getBottles(20); an error ends the pull without an event
GetBottles(s) ==
  /\ pulls[s].active /\ pulls[s].pc = "getBottles"
  /\ \E profile \in Fates, n \in Fates :
       LET status == IF profile # "ok" \/ n # "ok" THEN 0
                     ELSE IF bottleApi THEN 200 ELSE 404
       IN /\ pulls' = [pulls EXCEPT ![s] =
                         IF status = 200
                         THEN [@ EXCEPT !.cloudBottles = GetRows(bottles, PullLimit),
                                        !.pc = "bottleDeletions"]
                         ELSE IdlePull]
          /\ listNotFound' = (status = 404)
  /\ UNCHANGED <<utilVars, sockVars, initVars, callVars, syncVars, localVars, remoteVars, rtVars,
                 syncCompleted>>

\* variant: only the rows already marked synced are candidates
syncDeletionsSyncedOnly(local, cloud) ==
  [i \in DOMAIN local |->
     IF i \in Present(cloud) \/ local[i] = NoRow THEN local[i]
     ELSE IF local[i].sync_status = "synced" THEN NoRow ELSE local[i]]

\* syncDeletionsFromCloud: the table afterwards
syncDeletionsFromCloud(local, cloud) ==
  [i \in DOMAIN local |-> IF i \in Present(cloud) THEN local[i] ELSE NoRow]

\* the BOTTLE_DELETED / POOP_DELETED events of a deletion phase
DeletedEvents(d, local, cloud) ==
  [i \in RecordIds |->
     IF i \in Present(local) \ Present(cloud) THEN d[i] + 1 ELSE d[i]]

BottleDeletions(s) ==
  /\ pulls[s].active /\ pulls[s].pc = "bottleDeletions"
  /\ entries' = syncDeletionsFromCloud(entries, pulls[s].cloudBottles)
  /\ pulls' = [Dirtied(pulls, s, entries' # entries) EXCEPT ![s] =
                 [@ EXCEPT !.localBottles = Present(entries),
                           !.deleted = DeletedEvents(@, entries, pulls[s].cloudBottles),
                           !.pc = "bottles"]]
  /\ rtSent' = AfterEvents(IF entries' # entries THEN {"BOTTLE_DELETED"} ELSE {},
                           isConnected, rtSent)
  /\ UNCHANGED <<utilVars, sockVars, initVars, callVars, syncVars, poop, usedIds,
                 remoteVars, isConnected, rtReceived, delivered, sessionDeviceId, ownReceived,
                 ownEffects, syncCompleted, listNotFound>>

\* syncBottleFromCloud: the local row afterwards
syncBottleFromCloud(localBottle, cloudBottle) ==
  IF localBottle # NoRow
  THEN IF \/ localBottle.amount # cloudBottle.amount
          \/ localBottle.time # cloudBottle.time
          \/ localBottle.color # cloudBottle.color
       THEN [localBottle EXCEPT !.amount = cloudBottle.amount,
                                !.time = cloudBottle.time,
                                !.color = cloudBottle.color,
                                !.sync_status = "synced"]
       ELSE localBottle
  ELSE [amount |-> cloudBottle.amount, time |-> cloudBottle.time,
        color |-> cloudBottle.color, sync_status |-> "synced"]

\* syncPoopFromCloud: the local row afterwards; the INSERT names no color,
\* so the column default applies
syncPoopFromCloud(localPoop, cloudPoop) ==
  IF localPoop # NoRow
  THEN IF localPoop.time # cloudPoop.time \/ localPoop.info # cloudPoop.info
       THEN [localPoop EXCEPT !.time = cloudPoop.time,
                              !.info = cloudPoop.info,
                              !.sync_status = "synced"]
       ELSE localPoop
  ELSE [time |-> cloudPoop.time, info |-> cloudPoop.info,
        color |-> DefaultPoopColor, sync_status |-> "synced"]

\* for (const bottle of bottles) await this.syncBottleFromCloud(bottle)
Bottles(s) ==
  /\ pulls[s].active /\ pulls[s].pc = "bottles"
  /\ entries' = [i \in BottleIds |->
                   IF i \in Present(pulls[s].cloudBottles)
                   THEN syncBottleFromCloud(entries[i], pulls[s].cloudBottles[i])
                   ELSE entries[i]]
  /\ pulls' = [Dirtied(pulls, s, entries' # entries) EXCEPT ![s] =
                 [@ EXCEPT !.pc = "getPoops"]]
  /\ UNCHANGED <<utilVars, sockVars, initVars, callVars, syncVars, poop, usedIds, remoteVars, rtVars, syncCompleted,
                 listNotFound>>

\* getPoops(20): a 404 ends the pull with its event, another error without
GetPoops(s) ==
  /\ pulls[s].active /\ pulls[s].pc = "getPoops"
  /\ \E n \in Fates :
       \/ /\ n = "ok" /\ poopApi
          /\ pulls' = [pulls EXCEPT ![s] =
                         [@ EXCEPT !.cloudPoops = GetRows(poops, PullLimit),
                                   !.pc = "poopDeletions"]]
          /\ syncCompleted' = syncCompleted
          /\ listNotFound' = FALSE
       \/ /\ n = "ok" /\ ~poopApi
          /\ pulls' = [pulls EXCEPT ![s] = IdlePull]
          /\ syncCompleted' = syncCompleted + 1
          /\ listNotFound' = TRUE
       \/ /\ n # "ok"
          /\ pulls' = [pulls EXCEPT ![s] = IdlePull]
          /\ syncCompleted' = syncCompleted
          /\ listNotFound' = FALSE
  /\ rtSent' = AfterEvents(IF syncCompleted' # syncCompleted
                           THEN {"CLOUD_SYNC_COMPLETED"} ELSE {},
                           isConnected, rtSent)
  /\ UNCHANGED <<utilVars, sockVars, initVars, callVars, syncVars, localVars,
                 remoteVars, isConnected, rtReceived, delivered, sessionDeviceId, ownReceived,
                 ownEffects>>

\* syncPoopDeletionsFromCloud: the table afterwards
syncPoopDeletionsFromCloud(local, cloud) ==
  [i \in DOMAIN local |-> IF i \in Present(cloud) THEN local[i] ELSE NoRow]

PoopDeletions(s) ==
  /\ pulls[s].active /\ pulls[s].pc = "poopDeletions"
  /\ poop' = syncPoopDeletionsFromCloud(poop, pulls[s].cloudPoops)
  /\ pulls' = [Dirtied(pulls, s, poop' # poop) EXCEPT ![s] =
                 [@ EXCEPT !.localPoops = Present(poop),
                           !.deleted = DeletedEvents(@, poop, pulls[s].cloudPoops),
                           !.pc = "poops"]]
  /\ rtSent' = AfterEvents(IF poop' # poop THEN {"POOP_DELETED"} ELSE {},
                           isConnected, rtSent)
  /\ UNCHANGED <<utilVars, sockVars, initVars, callVars, syncVars, entries,
                 usedIds, remoteVars, isConnected, rtReceived, delivered, sessionDeviceId, ownReceived,
                 ownEffects, syncCompleted, listNotFound>>

\* for (const poop of poops) await this.syncPoopFromCloud(poop), then the
\* CLOUD_SYNC_COMPLETED event
Poops(s) ==
  /\ pulls[s].active /\ pulls[s].pc = "poops"
  /\ poop' = [i \in PoopIds |->
                IF i \in Present(pulls[s].cloudPoops)
                THEN syncPoopFromCloud(poop[i], pulls[s].cloudPoops[i])
                ELSE poop[i]]
  /\ pulls' = [Dirtied(pulls, s, poop' # poop) EXCEPT ![s] = IdlePull]
  /\ syncCompleted' = syncCompleted + 1
  /\ rtSent' = AfterEvents({"CLOUD_SYNC_COMPLETED"}, isConnected, rtSent)
  /\ UNCHANGED <<utilVars, sockVars, initVars, callVars, syncVars, entries,
                 usedIds, remoteVars, isConnected, rtReceived, delivered, sessionDeviceId, ownReceived,
                 ownEffects, listNotFound>>

(***************************************************************************)
(* Real-time messages from the socket                                      *)
(***************************************************************************)
\* the cases of the switch of handleRealTimeMessage that pull
PullTypes == {"CONNECTED", "SYNC_REQUESTED", "GROUP_UPDATED", "SETTINGS_CHANGED"}
MessageTypes == PullTypes \cup {"DATA_CLEARED", "BOTTLE_ADDED"}
DeviceIds == {OwnDeviceId, OtherDeviceId}

\* variant: no comparison of device ids
handleMessageAll(ownId, message) == TRUE

\* RealTimeSyncService.handleMessage: the message reaches the listeners
handleMessage(ownId, message) == ~(ownId = message.deviceId)

\* SyncService.handleRealTimeMessage after getProfile: the message is acted on
handleRealTimeMessage(message) == ~(message.deviceId = SyncDeviceId)

\* ws.onmessage -> handleMessage -> the listener of setupRealTimeListeners
\* -> handleRealTimeMessage -> syncFromCloud / clearAllDataAndSyncFromCloud
ReceiveMessage(type, deviceId) ==
  /\ isConnected
  /\ rtReceived < MaxMessages
  /\ rtReceived' = rtReceived + 1
  /\ LET message == [type |-> type, deviceId |-> deviceId]
         own == deviceId = OwnDeviceId
     IN /\ ownReceived' = IF own THEN ownReceived + 1 ELSE ownReceived
        /\ IF handleMessage(sessionDeviceId, message)
           THEN /\ delivered' = delivered + 1
                /\ \E profile \in Fates :
                     IF profile = "ok" /\ handleRealTimeMessage(message)
                     THEN CASE type \in PullTypes ->
                                 /\ pulls' = syncFromCloud(pulls, isOnline)
                                 /\ UNCHANGED <<entries, poop>>
                            [] type = "DATA_CLEARED" ->
                                 /\ entries' = [i \in BottleIds |-> NoRow]
                                 /\ poop' = [i \in PoopIds |-> NoRow]
                                 /\ pulls' = syncFromCloud(
                                      Dirtied(pulls, 0, entries' # entries \/ poop' # poop),
                                      isOnline)
                            [] OTHER -> UNCHANGED <<entries, poop, pulls>>
                     ELSE UNCHANGED <<entries, poop, pulls>>
           ELSE UNCHANGED <<delivered, entries, poop, pulls>>
        /\ ownEffects' = IF own /\ (\/ delivered' # delivered
                                     \/ pulls' # pulls
                                     \/ entries' # entries
                                     \/ poop' # poop)
                         THEN ownEffects + 1 ELSE ownEffects
  /\ UNCHANGED <<utilVars, sockVars, initVars, callVars, syncVars, usedIds, remoteVars, isConnected, rtSent,
                 sessionDeviceId, syncCompleted, listNotFound>>

(***************************************************************************)
(* The other devices of the account, through the backend                   *)
(***************************************************************************)
OtherAmounts == {"150"}
OtherTimes == {"T1"}
OtherInfos == {"note", "null"}
OtherBottleColors == {DefaultBottleColor}
OtherPoopColors == {DefaultPoopColor, "#00FF00"}

\* a request of another device that the backend accepted
OtherBottleWrite ==
  \E id \in BottleIds, a \in OtherAmounts, t \in OtherTimes,
     c \in OtherBottleColors :
    \E r \in {PostBottle(bottles, bottleApi,
                         [id |-> id, amount |-> a, time |-> t, color |-> c]),
              PutBottle(bottles, bottleApi, id,
                        [amount |-> a, time |-> t, color |-> c]),
              DeleteBottle(bottles, bottleApi, id)} :
      /\ Succeeded(r.status)
      /\ bottles' = r.tbl
      /\ UNCHANGED <<utilVars, sockVars, initVars, callVars, syncVars, localVars, poops, poopApi, bottleApi, rtVars, pullVars>>

OtherPoopWrite ==
  \E id \in PoopIds, t \in OtherTimes, n \in OtherInfos,
     c \in OtherPoopColors :
    \E r \in {PostPoop(poops, poopApi, [id |-> id, time |-> t, info |-> n, color |-> c]),
              PutPoop(poops, poopApi, id, [time |-> t, info |-> n, color |-> c]),
              DeletePoop(poops, poopApi, id)} :
      /\ Succeeded(r.status)
      /\ poops' = r.tbl
      /\ UNCHANGED <<utilVars, sockVars, initVars, callVars, syncVars, localVars, bottles, poopApi, bottleApi, rtVars, pullVars>>

(***************************************************************************)
(* RealTimeSyncService: the socket and its reconnect loop                  *)
(***************************************************************************)
InitSocket ==
  /\ ws = "none"
  /\ reconnectAttempts = 0
  /\ reconnectTimeout = 0
  /\ reconnecting = FALSE
  /\ error = "null"
  /\ attempt = FALSE
  /\ failedRun = 0
  /\ disconnected = FALSE

\* this.reconnectDelay * Math.pow(2, this.status.reconnectAttempts)
ReconnectDelay(attempts) == reconnectDelay * 2^attempts

\* initialize(): the token, the profile, then connect() up to "new WebSocket";
\* called when no socket, timer or reconnect callback is left over
Initialize(profile) ==
  /\ ws = "none" /\ reconnectTimeout = 0 /\ ~reconnecting
  /\ disconnected' = FALSE
  /\ attempt' = FALSE
  /\ IF profile = "ok"
       THEN /\ ws' = "connecting"
            /\ error' = "null"
            /\ sessionDeviceId' = getDeviceId(sessionDeviceId)
       ELSE /\ error' = "Request failed"
            /\ UNCHANGED <<ws, sessionDeviceId>>
  /\ UNCHANGED <<reconnectAttempts, reconnectTimeout, reconnecting, failedRun,
                 isConnected, rtSent, rtReceived, delivered, ownReceived,
                 ownEffects, syncVars, localVars, remoteVars, pullVars,
                 callVars, initVars, utilVars>>

\* ws.onopen
WsOpen ==
  /\ ws = "connecting"
  /\ ws' = "open"
  /\ isConnected' = TRUE
  /\ error' = "null"
  /\ reconnectAttempts' = 0
  /\ attempt' = FALSE
  /\ failedRun' = 0
  /\ UNCHANGED <<reconnectTimeout, reconnecting, disconnected, rtSent,
                 rtReceived, delivered, sessionDeviceId, ownReceived,
                 ownEffects, syncVars, localVars, remoteVars, pullVars,
                 callVars, initVars, utilVars>>

\* ws.onerror (for a socket that never opened) and ws.onclose ->
\* handleDisconnection(code, reason); a socket that never opened closes
\* abnormally
WsClose(code) ==
  /\ ws \in IF code = 1000 THEN {"open"} ELSE {"connecting", "open"}
  /\ ws = "connecting" /\ attempt => failedRun < MaxFailedRun
  /\ ws' = "none"
  /\ isConnected' = FALSE
  /\ attempt' = FALSE
  /\ failedRun' = IF ws = "connecting" /\ attempt THEN failedRun + 1 ELSE failedRun
  /\ IF code = 1000
       THEN UNCHANGED <<reconnectTimeout, error>>
       ELSE IF reconnectAttempts < maxReconnectAttempts
              THEN /\ reconnectTimeout' = ReconnectDelay(reconnectAttempts)
                   /\ error' = IF ws = "connecting"
                                 THEN "WebSocket connection error" ELSE error
              ELSE /\ error' = "Max reconnection attempts reached"
                   /\ UNCHANGED reconnectTimeout
  /\ UNCHANGED <<reconnectAttempts, reconnecting, disconnected, rtSent,
                 rtReceived, delivered, sessionDeviceId, ownReceived,
                 ownEffects, syncVars, localVars, remoteVars, pullVars,
                 callVars, initVars, utilVars>>

\* the reconnect timer expires: its callback starts and awaits the token
\* and the profile
TimerFires ==
  /\ reconnectTimeout # 0
  /\ reconnectTimeout' = 0
  /\ reconnecting' = TRUE
  /\ UNCHANGED <<ws, reconnectAttempts, error, attempt, failedRun, disconnected,
                 rtVars, syncVars, localVars, remoteVars, pullVars, callVars,
                 initVars, utilVars>>

\* the reconnect callback resumes: connect() if the profile arrived, the
\* catch branch if it did not
Reconnect(profile) ==
  /\ reconnecting
  /\ reconnecting' = FALSE
  /\ IF profile = "ok"
       THEN /\ IF ws = "open"
                 THEN UNCHANGED <<ws, error, attempt, sessionDeviceId>>
                 ELSE /\ ws' = "connecting"
                      /\ error' = "null"
                      /\ attempt' = TRUE
                      /\ sessionDeviceId' = getDeviceId(sessionDeviceId)
            /\ UNCHANGED <<reconnectAttempts, failedRun>>
       ELSE /\ failedRun < MaxFailedRun
            /\ reconnectAttempts' = reconnectAttempts + 1
            /\ error' = "Reconnection failed"
            /\ failedRun' = failedRun + 1
            /\ UNCHANGED <<ws, attempt, sessionDeviceId>>
  /\ UNCHANGED <<reconnectTimeout, disconnected, isConnected, rtSent,
                 rtReceived, delivered, ownReceived, ownEffects, syncVars,
                 localVars, remoteVars, pullVars, callVars, initVars, utilVars>>

\* disconnect(): clearTimeout, ws.close(1000), ws = null
Disconnect ==
  /\ reconnectTimeout' = 0
  /\ ws' = "none"
  /\ isConnected' = FALSE
  /\ error' = "null"
  /\ attempt' = FALSE
  /\ disconnected' = TRUE
  /\ UNCHANGED <<reconnectAttempts, reconnecting, failedRun, rtSent,
                 rtReceived, delivered, sessionDeviceId, ownReceived,
                 ownEffects, syncVars, localVars, remoteVars, pullVars,
                 callVars, initVars, utilVars>>

(***************************************************************************)
(* DatabaseService.initDatabase: opening the local store                   *)
(***************************************************************************)
\* the components that call initDatabase
Callers == {"dashboard", "addPoop", "service"}
Inits == 1..MaxInits

IdleCaller == [pc |-> "idle", init |-> 0, waited |-> FALSE, result |-> "none"]

InitStore ==
  /\ isInitializing = FALSE
  /\ db = "null"
  /\ callers = [c \in Callers |-> IdleCaller]
  /\ initCount = 0
  /\ outcome = [g \in Inits |-> "none"]
  /\ created = [g \in Inits |-> 0]

\* variant: a waiting caller reports success
StoreOpenAlways(store) == "true"

\* return this.db !== null
StoreOpen(store) == IF store # "null" THEN "true" ELSE "false"

\* initDatabase() up to its first await: the busy check, then either the
\* polling loop or the busy flag and the open (or the test of an open store)
InitDatabase(c) ==
  /\ callers[c].pc \in {"idle", "returned"}
  /\ IF isInitializing
       THEN /\ callers' = [callers EXCEPT ![c] =
                 [pc |-> "waiting", init |-> initCount, waited |-> TRUE,
                  result |-> "none"]]
            /\ UNCHANGED <<isInitializing, initCount>>
       ELSE /\ initCount < MaxInits
            /\ isInitializing' = TRUE
            /\ initCount' = initCount + 1
            /\ callers' = [callers EXCEPT ![c] =
                 [pc |-> IF db = "null" THEN "opening" ELSE "testing",
                  init |-> initCount + 1, waited |-> FALSE,
                  result |-> "none"]]
  /\ UNCHANGED <<db, outcome, created, syncVars, localVars, remoteVars,
                 rtVars, pullVars, callVars, sockVars, utilVars>>

\* the catch and finally blocks, or the return true, of initDatabase
Finish(c, result) ==
  /\ isInitializing' = FALSE
  /\ outcome' = [outcome EXCEPT ![callers[c].init] = result]
  /\ callers' = [callers EXCEPT ![c].pc = "returned", ![c].result = result]

\* this.db = await SQLite.openDatabaseAsync(this.dbName)
OpenDatabase(c, ok) ==
  /\ callers[c].pc = "opening"
  /\ IF ok
       THEN /\ db' = "open"
            /\ callers' = [callers EXCEPT ![c].pc = "creating"]
            /\ UNCHANGED <<isInitializing, outcome>>
       ELSE /\ db' = "null"
            /\ Finish(c, "false")
  /\ UNCHANGED <<initCount, created, syncVars, localVars, remoteVars, rtVars,
                 pullVars, callVars, sockVars, utilVars>>

\* await this.createTables(): the CREATE TABLE IF NOT EXISTS statements and
\* runMigrations, which both log their errors and go on
createTables(c) ==
  /\ callers[c].pc = "creating"
  /\ created' = [created EXCEPT ![callers[c].init] = @ + 1]
  /\ callers' = [callers EXCEPT ![c].pc = "testing"]
  /\ UNCHANGED <<isInitializing, db, initCount, outcome, syncVars, localVars,
                 remoteVars, rtVars, pullVars, callVars, sockVars, utilVars>>

\* await this.db.execAsync('SELECT 1')
TestConnection(c, ok) ==
  /\ callers[c].pc = "testing"
  /\ IF ok
       THEN /\ Finish(c, "true")
            /\ UNCHANGED db
       ELSE /\ db' = "null"
            /\ Finish(c, "false")
  /\ UNCHANGED <<initCount, created, syncVars, localVars, remoteVars, rtVars,
                 pullVars, callVars, sockVars, utilVars>>

\* the polling loop finds the busy flag lowered
Poll(c) ==
  /\ callers[c].pc = "waiting"
  /\ ~isInitializing
  /\ callers' = [callers EXCEPT ![c].pc = "returned",
                                ![c].result = StoreOpen(db)]
  /\ UNCHANGED <<isInitializing, db, initCount, outcome, created, syncVars,
                 localVars, remoteVars, rtVars, pullVars, callVars, sockVars, utilVars>>

(***************************************************************************)
(* EventEmitter (dataChangeEmitter): subscription and fan-out              *)
(***************************************************************************)
ListenerIds == {"dashboard", "second", "third"}

InitEmitter ==
  /\ listeners = <<>>
  /\ subscribed = <<>>
  /\ invoked = <<>>
  /\ emitThrew = FALSE

\* variant: the listener is called without a try/catch
invokeUnguarded(listener, throwing) == listener \in throwing

\* try { listener(event) } catch (error) { console.error(...) }: whether
\* the exception of the listener leaves the callback of forEach
invoke(listener, throwing) == FALSE

\* this.listeners.forEach(...): the calls made, in order, and whether the
\* loop was left by an exception
RECURSIVE emit(_, _)
emit(ls, throwing) ==
  IF ls = <<>>
    THEN [calls |-> <<>>, threw |-> FALSE]
    ELSE LET call == [listener |-> Head(ls), threw |-> Head(ls) \in throwing]
         IN IF invoke(Head(ls), throwing)
              THEN [calls |-> <<call>>, threw |-> TRUE]
              ELSE LET rest == emit(Tail(ls), throwing)
                   IN [calls |-> <<call>> \o rest.calls, threw |-> rest.threw]

\* the position of the first occurrence, 0 if there is none
indexOf(ls, l) ==
  IF \E k \in 1..Len(ls) : ls[k] = l
    THEN MinOf({k \in 1..Len(ls) : ls[k] = l})
    ELSE 0

\* this.listeners.splice(index, 1)
splice(ls, index) == SubSeq(ls, 1, index - 1) \o SubSeq(ls, index + 1, Len(ls))

\* addListener: this.listeners.push(listener)
AddListener(l) ==
  /\ Len(listeners) < MaxListeners
  /\ listeners' = Append(listeners, l)
  /\ UNCHANGED <<subscribed, invoked, emitThrew, idVars, loggedOut, lateVars, syncVars,
                 localVars, remoteVars, rtVars, pullVars, callVars, sockVars,
                 initVars>>

\* the function addListener returned: indexOf, then splice if found
RemoveListener(l) ==
  /\ listeners' = IF indexOf(listeners, l) > 0
                    THEN splice(listeners, indexOf(listeners, l))
                    ELSE listeners
  /\ UNCHANGED <<subscribed, invoked, emitThrew, idVars, loggedOut, lateVars, syncVars,
                 localVars, remoteVars, rtVars, pullVars, callVars, sockVars,
                 initVars>>

\* emit(event), with the listeners that throw on this event
Emit(throwing) ==
  /\ subscribed' = listeners
  /\ invoked' = emit(listeners, throwing).calls
  /\ emitThrew' = emit(listeners, throwing).threw
  /\ UNCHANGED <<listeners, idVars, loggedOut, lateVars, syncVars, localVars, remoteVars,
                 rtVars, pullVars, callVars, sockVars, initVars>>

(***************************************************************************)
(* IDService.generateUniqueId                                              *)
(***************************************************************************)
\* values of the random token (generateUUID)
Uuids == {"uuid1", "uuid2"}
\* IDService.deviceId, fixed for the session
IdDevice == "device"

InitIds ==
  /\ clock = 1
  /\ lastTimestamp = 0
  /\ counter = 0
  /\ generated = <<>>

\* let uniqueTimestamp = timestamp; if (timestamp === this.lastTimestamp)
\* { this.counter++; uniqueTimestamp = timestamp + this.counter }
uniqueTimestamp(timestamp, last, count) ==
  IF timestamp = last THEN timestamp + (count + 1) ELSE timestamp

\* the millisecond clock advances
Tick ==
  /\ clock < MaxClock
  /\ clock' = clock + 1
  /\ UNCHANGED <<lastTimestamp, counter, generated, emitVars, loggedOut, lateVars,
                 syncVars, localVars, remoteVars, rtVars, pullVars, callVars,
                 sockVars, initVars>>

\* generateUniqueId(): `${uniqueTimestamp}_${uuid}_${deviceId}`
generateUniqueId(uuid) ==
  /\ Len(generated) < MaxIds
  /\ IF clock = lastTimestamp
       THEN /\ counter' = counter + 1
            /\ UNCHANGED lastTimestamp
       ELSE /\ counter' = 0
            /\ lastTimestamp' = clock
  /\ generated' = Append(generated,
       [timestamp |-> uniqueTimestamp(clock, lastTimestamp, counter),
        uuid |-> uuid, deviceId |-> IdDevice])
  /\ UNCHANGED <<clock, emitVars, loggedOut, lateVars, syncVars, localVars, remoteVars,
                 rtVars, pullVars, callVars, sockVars, initVars>>

(***************************************************************************)
(* RealTimeSyncService.connect and the WebSocket server: the sockets of    *)
(* one device                                                              *)
(***************************************************************************)
InitConn ==
  /\ socks = <<>>
  /\ cur = 0
  /\ clients = {}
  /\ closing = {}

\* this.ws?.readyState === WebSocket.OPEN
CurrentOpen(ss, c) == c # 0 /\ ss[c].state = "open"

\* the early return of connect()
connectReturns(ss, c) == CurrentOpen(ss, c)

\* initialize() or the reconnect callback, through connect(): unless the
\* current socket is open, this.ws = new WebSocket(wsUrl); the socket that
\* this.ws held is neither closed nor detached from its handlers
Connect ==
  /\ Len(socks) < MaxSockets
  /\ ~connectReturns(socks, cur)
  /\ sessionDeviceId' = getDeviceId(sessionDeviceId)
  /\ socks' = Append(socks, [state |-> "connecting", accepted |-> FALSE,
                             deviceId |-> sessionDeviceId'])
  /\ cur' = Len(socks) + 1
  /\ UNCHANGED <<clients, closing, devVars, sendVars, wssVars, schemaVars, screenVars, isConnected, rtSent,
                 rtReceived, delivered, ownReceived, ownEffects, emitVars,
                 idVars, loggedOut, syncVars, localVars, remoteVars, pullVars,
                 callVars, sockVars, initVars>>

\* wss.on('connection'): every client of the same deviceId is closed with
\* 1000 and deleted, then the new client is stored
Connection(i) ==
  /\ i \in 1..Len(socks)
  /\ socks[i].state = "connecting" /\ ~socks[i].accepted
  /\ socks' = [socks EXCEPT ![i].accepted = TRUE]
  /\ closing' = closing \cup (clients \ {i})
  /\ clients' = {i}
  /\ UNCHANGED <<cur, devVars, sendVars, wssVars, schemaVars, screenVars, emitVars, idVars, loggedOut, syncVars, localVars,
                 remoteVars, rtVars, pullVars, callVars, sockVars, initVars>>

\* ws.onopen of socket i: updateStatus({isConnected: true, ...})
OnOpen(i) ==
  /\ i \in 1..Len(socks)
  /\ socks[i].state = "connecting" /\ socks[i].accepted
  /\ socks' = [socks EXCEPT ![i].state = "open"]
  /\ isConnected' = TRUE
  /\ UNCHANGED <<cur, clients, closing, devVars, sendVars, wssVars, schemaVars, screenVars, rtSent, rtReceived, delivered,
                 sessionDeviceId, ownReceived, ownEffects, emitVars, idVars,
                 loggedOut, syncVars, localVars, remoteVars, pullVars,
                 callVars, sockVars, initVars>>

\* ws.onclose of socket i -> handleDisconnection: the close the server sent
\* (1000) or a loss of the connection (1006), after which the server's
\* ws.on('close') deletes the client
OnClose(i, code) ==
  /\ i \in 1..Len(socks)
  /\ IF code = 1000
       THEN socks[i].state = "open" /\ i \in closing
       ELSE socks[i].state \in {"connecting", "open"} /\ i \notin closing
  /\ socks' = [socks EXCEPT ![i].state = "closed"]
  /\ closing' = closing \ {i}
  /\ clients' = clients \ {i}
  /\ isConnected' = FALSE
  /\ UNCHANGED <<cur, devVars, sendVars, wssVars, schemaVars, screenVars, rtSent, rtReceived, delivered, sessionDeviceId,
                 ownReceived, ownEffects, emitVars, idVars, loggedOut,
                 syncVars, localVars, remoteVars, pullVars, callVars,
                 sockVars, initVars>>

(***************************************************************************)
(* RealTimeSyncService.getDeviceId and its callers                         *)
(***************************************************************************)
\* the two initialize() -> connect() of a start-up and sendRealTimeMessage
ConnectCallers == {"startup", "afterAuth"}
DevCallers == ConnectCallers \cup {"send"}
\* `device_${Date.now()}_${random}`
GeneratedIds == {"device_1", "device_2"}
\* `device_${Date.now()}_fallback`
FallbackId == "device_fallback"

IdleCall == [pc |-> "idle", ret |-> "null"]

InitDevice ==
  /\ devStored = "null"
  /\ devOps = <<>>
  /\ devCalls = [c \in DevCallers |-> IdleCall]
  /\ presented = {}
  /\ devRestarts = 0

\* "return this.sessionDeviceId" at the end of the try, the fallback id of
\* the catch when a storage request rejected
ReturnsOrFallback(field, ok) == IF ok THEN field ELSE FallbackId

\* getDeviceId() up to its first await: the id in memory if there is one,
\* otherwise AsyncStorage.getItem('realTimeSessionDeviceId') is requested;
\* sendRealTimeMessage calls it only while isConnected(), that is after a
\* handshake
GetDeviceId(c) ==
  /\ devCalls[c].pc = "idle"
  /\ c = "send" => presented # {}
  /\ IF sessionDeviceId # "null"
       THEN /\ devCalls' = [devCalls EXCEPT ![c] =
                              [pc |-> "returned", ret |-> sessionDeviceId]]
            /\ UNCHANGED devOps
       ELSE /\ devCalls' = [devCalls EXCEPT ![c].pc = "getItem"]
            /\ devOps' = Append(devOps, [caller |-> c, value |-> "null"])
  /\ UNCHANGED <<devStored, presented, devRestarts, connVars, sendVars, wssVars, schemaVars, screenVars, emitVars, idVars,
                 loggedOut, syncVars, localVars, remoteVars, rtVars, pullVars,
                 callVars, sockVars, initVars>>

\* the oldest request to AsyncStorage settles and its caller resumes: after
\* getItem, the stored id is taken over or a new id is generated, assigned
\* and its setItem requested; after setItem the call returns
StorageSettles(ok) ==
  /\ devOps # <<>>
  /\ LET c == Head(devOps).caller
         rest == Tail(devOps)
     IN CASE devCalls[c].pc = "getItem" /\ ok /\ devStored # "null" ->
               /\ sessionDeviceId' = devStored
               /\ devCalls' = [devCalls EXCEPT ![c] =
                    [pc |-> "returned", ret |-> ReturnsOrFallback(devStored, TRUE)]]
               /\ devOps' = rest
               /\ UNCHANGED devStored
          [] devCalls[c].pc = "getItem" /\ ok /\ devStored = "null" ->
               \E id \in GeneratedIds :
                 /\ sessionDeviceId' = id
                 /\ devCalls' = [devCalls EXCEPT ![c].pc = "setItem"]
                 /\ devOps' = Append(rest, [caller |-> c, value |-> id])
                 /\ UNCHANGED devStored
          [] devCalls[c].pc = "setItem" /\ ok ->
               /\ devStored' = Head(devOps).value
               /\ devCalls' = [devCalls EXCEPT ![c] =
                    [pc |-> "returned",
                     ret |-> ReturnsOrFallback(sessionDeviceId, TRUE)]]
               /\ devOps' = rest
               /\ UNCHANGED sessionDeviceId
          [] OTHER ->
               /\ devCalls' = [devCalls EXCEPT ![c] =
                    [pc |-> "returned",
                     ret |-> ReturnsOrFallback(sessionDeviceId, FALSE)]]
               /\ devOps' = rest
               /\ UNCHANGED <<devStored, sessionDeviceId>>
  /\ UNCHANGED <<presented, devRestarts, isConnected, rtSent, rtReceived,
                 delivered, ownReceived, ownEffects, connVars, sendVars, wssVars, schemaVars, screenVars, emitVars,
                 idVars, loggedOut, syncVars, localVars, remoteVars, pullVars,
                 callVars, sockVars, initVars>>

\* the caller uses the id it was given: connect() assigns it to
\* this.sessionDeviceId and places it in the URL of the handshake,
\* sendRealTimeMessage places it in the message
UseDeviceId(c) ==
  /\ devCalls[c].pc = "returned"
  /\ devCalls' = [devCalls EXCEPT ![c].pc = "used"]
  /\ presented' = presented \cup {devCalls[c].ret}
  /\ sessionDeviceId' = IF c \in ConnectCallers THEN devCalls[c].ret
                        ELSE sessionDeviceId
  /\ UNCHANGED <<devStored, devOps, devRestarts, isConnected, rtSent,
                 rtReceived, delivered, ownReceived, ownEffects, connVars, sendVars, wssVars, schemaVars, screenVars,
                 emitVars, idVars, loggedOut, syncVars, localVars, remoteVars,
                 pullVars, callVars, sockVars, initVars>>

\* the app is closed and started again once no call is under way: the
\* memory is lost, AsyncStorage is kept
Relaunch ==
  /\ devRestarts < MaxRelaunches
  /\ devOps = <<>>
  /\ \A c \in DevCallers : devCalls[c].pc \in {"idle", "used"}
  /\ \E c \in DevCallers : devCalls[c].pc = "used"
  /\ devRestarts' = devRestarts + 1
  /\ sessionDeviceId' = "null"
  /\ devCalls' = [c \in DevCallers |-> [devCalls[c] EXCEPT !.pc = "idle"]]
  /\ UNCHANGED <<devStored, devOps, presented, isConnected, rtSent,
                 rtReceived, delivered, ownReceived, ownEffects, connVars, sendVars, wssVars, schemaVars, screenVars,
                 emitVars, idVars, loggedOut, syncVars, localVars, remoteVars,
                 pullVars, callVars, sockVars, initVars>>

(***************************************************************************)
(* sendRealTimeMessage and RealTimeSyncService.sendMessage                 *)
(***************************************************************************)
\* user.id of the profile of the signed-in account
AccountId == 1
SentTypes == {"SYNC_REQUESTED"}

InitSend ==
  /\ wire = <<>>
  /\ draws = 0
  /\ sendPc = "idle"
  /\ sendOutcome = "none"

\* variant: sendMessage writes whatever the state of the socket
CanWriteAlways(ss, c) == c # 0

\* sendMessage: "if (!this.ws || this.ws.readyState !== WebSocket.OPEN) return"
CanWrite(ss, c) == CurrentOpen(ss, c)

\* sendRealTimeMessage(type, data, 1) up to its first await: nothing is done
\* unless realTimeSyncService.isConnected()
SendRealTimeMessage ==
  /\ sendPc = "idle"
  /\ Len(wire) < MaxWire
  /\ IF isConnected
       THEN /\ sendPc' = "awaiting"
            /\ sendOutcome' = "none"
       ELSE /\ sendPc' = "idle"
            /\ sendOutcome' = "skipped"
  /\ UNCHANGED <<wire, draws, connVars, devVars, wssVars, schemaVars, screenVars, emitVars, idVars, loggedOut,
                 syncVars, localVars, remoteVars, rtVars, pullVars, callVars,
                 sockVars, initVars>>

\* the rest of sendRealTimeMessage: getProfile, getDeviceId, then
\* sendMessage, which adds the messageId and writes to the socket if it is
\* open; every error ends in the catch of sendRealTimeMessage or of
\* sendMessage
SendResumes(type, profile) ==
  /\ sendPc = "awaiting"
  /\ sendPc' = "idle"
  /\ IF profile # "ok"
       THEN /\ sendOutcome' = "caught"
            /\ UNCHANGED <<wire, draws>>
       ELSE IF CanWrite(socks, cur)
              THEN /\ wire' = Append(wire,
                        [type |-> type, userId |-> AccountId, groupId |-> 1,
                         timestamp |-> clock,
                         deviceId |-> getDeviceId(sessionDeviceId),
                         messageId |-> <<type, clock, draws + 1>>,
                         socket |-> cur])
                   /\ draws' = draws + 1
                   /\ sendOutcome' = "written"
              ELSE /\ sendOutcome' = "dropped"
                   /\ UNCHANGED <<wire, draws>>
  /\ UNCHANGED <<connVars, devVars, wssVars, schemaVars, screenVars, emitVars, idVars, loggedOut,
                 syncVars, localVars, remoteVars, rtVars, pullVars, callVars,
                 sockVars, initVars>>

(***************************************************************************)
(* The WebSocket server: connections of several accounts and devices       *)
(***************************************************************************)
\* the accounts, as the userId of their tokens
UserIds == {1, 2}
\* the userId parameter of the connection URL
UserIdParams == {"1", "2", "1x", "x"}
\* the token parameter: a token signed for an account, or one that does
\* not verify
Tokens == {"jwt1", "jwt2", "bad"}
WssDevices == {OwnDeviceId, OtherDeviceId, "devC"}

\* parseInt(userId); 0 stands for NaN, which equals nothing
ParseInt(p) == CASE p \in {"1", "1x"} -> 1 [] p = "2" -> 2 [] OTHER -> 0

\* jwt.verify(token, secret).userId; 0 when the token does not verify
Decoded(token) == CASE token = "jwt1" -> 1 [] token = "jwt2" -> 2 [] OTHER -> 0

\* verifyWebSocketToken(token, userId).valid
verifyWebSocketToken(token, p) ==
  /\ Decoded(token) # 0
  /\ ParseInt(p) # 0
  /\ Decoded(token) = ParseInt(p)

InitWss ==
  /\ wssConns = <<>>
  /\ wssSender = 0
  /\ wssRecipients = {}
  /\ wssMessages = 0

\* the keys of the clients map
WssClients == {k \in 1..Len(wssConns) : wssConns[k].stored}

\* variant: the device of the sender is not compared
ForwardsToAnyDevice(from, to) ==
  /\ to # from
  /\ wssConns[to].readyState = "open"
  /\ wssConns[to].userId = ParseInt(wssConns[from].param)

\* the condition of the broadcast loop, for the message of connection from
\* and the client to
Forwards(from, to) ==
  /\ to # from
  /\ wssConns[to].readyState = "open"
  /\ wssConns[to].deviceId # wssConns[from].deviceId
  /\ wssConns[to].userId = ParseInt(wssConns[from].param)

\* wss.on('connection'): a connection that does not authenticate is closed;
\* otherwise the clients of the same deviceId are closed and deleted and the
\* new client is stored
WssConnection(token, p, device) ==
  /\ Len(wssConns) < MaxConns
  /\ LET new == Len(wssConns) + 1
     IN IF verifyWebSocketToken(token, p)
          THEN wssConns' = Append(
                 [k \in 1..Len(wssConns) |->
                    IF wssConns[k].stored /\ wssConns[k].deviceId = device
                    THEN [wssConns[k] EXCEPT !.readyState = "closing",
                                             !.stored = FALSE]
                    ELSE wssConns[k]],
                 [userId |-> ParseInt(p), param |-> p, deviceId |-> device,
                  readyState |-> "open", stored |-> TRUE, listening |-> TRUE])
          ELSE wssConns' = Append(wssConns,
                 [userId |-> 0, param |-> p, deviceId |-> device,
                  readyState |-> "closing", stored |-> FALSE,
                  listening |-> FALSE])
  /\ UNCHANGED <<wssSender, wssRecipients, wssMessages, connVars, devVars,
                 sendVars, emitVars, idVars, loggedOut, syncVars, localVars,
                 remoteVars, rtVars, pullVars, callVars, sockVars, initVars,
                 schemaVars, screenVars>>

\* ws.on('message') of connection c, which is open or which the server has
\* closed without the close handshake being over: the message is sent to
\* every client that passes the condition of the loop
WssMessage(c) ==
  /\ c \in 1..Len(wssConns)
  /\ wssConns[c].listening
  /\ wssConns[c].readyState \in {"open", "closing"}
  /\ wssMessages < MaxWssMessages
  /\ wssMessages' = wssMessages + 1
  /\ wssSender' = c
  /\ wssRecipients' = {k \in WssClients : Forwards(c, k)}
  /\ UNCHANGED <<wssConns, connVars, devVars, sendVars, emitVars, idVars,
                 loggedOut, syncVars, localVars, remoteVars, rtVars, pullVars,
                 callVars, sockVars, initVars,
                 schemaVars, screenVars>>

\* ws.on('close') of connection c, closed by the server or by its client:
\* clients.delete(ws)
WssClose(c) ==
  /\ c \in 1..Len(wssConns)
  /\ wssConns[c].readyState \in {"open", "closing"}
  /\ wssConns' = [wssConns EXCEPT ![c].readyState = "closed",
                                  ![c].stored = FALSE]
  /\ UNCHANGED <<wssSender, wssRecipients, wssMessages, connVars, devVars,
                 sendVars, emitVars, idVars, loggedOut, syncVars, localVars,
                 remoteVars, rtVars, pullVars, callVars, sockVars, initVars,
                 schemaVars, screenVars>>

(***************************************************************************)
(* DatabaseService.runMigrations: the sync_status column of the local      *)
(* tables                                                                  *)
(***************************************************************************)
Tables == {"entries", "poop"}

\* the sync_status of a row of a table that has no such column
NoColumn == "no column"

\* the values the type of the records allows
SyncStatuses == {"pending", "synced", "error"}

\* a database this version of the app created and has opened
InitSchema ==
  /\ columns = [t \in Tables |-> TRUE]
  /\ migrated = TRUE

\* ALTER TABLE ... ADD COLUMN sync_status TEXT DEFAULT value: the rows the
\* table holds read the default
AddColumn(table, value) ==
  [i \in DOMAIN table |->
     IF table[i] = NoRow THEN NoRow
     ELSE [table[i] EXCEPT !.sync_status = value]]

\* migrateAddEntriesSyncFields: the table afterwards
migrateAddEntriesSyncFields(hasSyncStatus, table) ==
  IF ~hasSyncStatus THEN AddColumn(table, "pending") ELSE table

\* migrateAddPoopSyncFields: the table afterwards
migrateAddPoopSyncFields(hasSyncStatus, table) ==
  IF ~hasSyncStatus THEN AddColumn(table, "local") ELSE table

\* the tail of createTables, run by the first initDatabase of the process
\* before any statement on the tables: the migrations of the sync fields
runMigrations ==
  /\ ~migrated
  /\ entries' = migrateAddEntriesSyncFields(columns["entries"], entries)
  /\ poop' = migrateAddPoopSyncFields(columns["poop"], poop)
  /\ columns' = [t \in Tables |-> TRUE]
  /\ migrated' = TRUE
  /\ UNCHANGED <<usedIds, syncVars, remoteVars, rtVars, pullVars, callVars,
                 sockVars, initVars, emitVars, idVars, loggedOut, connVars,
                 devVars, sendVars, wssVars, screenVars>>

(***************************************************************************)
(* DashboardScreen.initializeScreen: the pull of the first start           *)
(***************************************************************************)
IdleScreen == [pc |-> "idle", slot |-> 0, mark |-> 0]

InitScreen ==
  /\ hasInitialSync = "null"
  /\ screen = IdleScreen
  /\ startPull = "none"

\* how the syncFromCloud that initializeScreen awaited ended: it returned
\* at its connectivity check, it ended in its catch, or it ran to its
\* CLOUD_SYNC_COMPLETED event
PullOutcome(slot, mark, completed) ==
  IF slot = 0 THEN "skipped"
  ELSE IF completed > mark THEN "applied" ELSE "failed"

\* initializeScreen of an authenticated start, up to
\* "await databaseService.syncFromCloud()": the flag is read, and the pull
\* is started unless the flag is 'true'
InitializeScreen ==
  /\ screen.pc = "idle"
  /\ IF hasInitialSync = "true"
     THEN UNCHANGED <<pulls, screen>>
     ELSE /\ pulls' = syncFromCloud(pulls, isOnline)
          /\ screen' = [pc |-> "syncing",
                        slot |-> IF pulls' = pulls THEN 0
                                 ELSE MinOf(FreePullSlots(pulls)),
                        mark |-> syncCompleted]
  /\ UNCHANGED <<hasInitialSync, startPull, syncCompleted, listNotFound,
                 syncVars, localVars, remoteVars, rtVars, callVars, sockVars,
                 initVars, emitVars, idVars, loggedOut, connVars, devVars,
                 sendVars, wssVars, schemaVars>>

\* the rest of initializeScreen once syncFromCloud has resolved (it catches
\* its own errors and never rejects):
\* AsyncStorage.setItem('hasInitialSync', 'true')
ScreenResumes ==
  /\ screen.pc = "syncing"
  /\ IF screen.slot = 0 THEN TRUE ELSE ~pulls[screen.slot].active
  /\ hasInitialSync' = "true"
  /\ startPull' = PullOutcome(screen.slot, screen.mark, syncCompleted)
  /\ screen' = IdleScreen
  /\ UNCHANGED <<pullVars, syncVars, localVars, remoteVars, rtVars, callVars,
                 sockVars, initVars, emitVars, idVars, loggedOut, connVars,
                 devVars, sendVars, wssVars, schemaVars>>

InitLate ==
  /\ InitConn
  /\ InitDevice
  /\ InitSend
  /\ InitWss
  /\ InitSchema
  /\ InitScreen

\* the state of the emitter, of the id service and of the session at start
InitUtil ==
  /\ InitEmitter
  /\ InitIds
  /\ loggedOut = FALSE
  /\ InitLate

(***************************************************************************)
(* AuthService.logout                                                      *)
(***************************************************************************)
\* logout(): cleanupServices (realTimeSyncService.disconnect()),
\* clearLocalData (clearAllDataOnly: DELETE FROM entries, DELETE FROM poop),
\* removal of the token and of the user; the sync service is not touched
Logout ==
  /\ ~loggedOut
  /\ loggedOut' = TRUE
  /\ reconnectTimeout' = 0
  /\ ws' = "none"
  /\ isConnected' = FALSE
  /\ error' = "null"
  /\ attempt' = FALSE
  /\ disconnected' = TRUE
  /\ entries' = [i \in BottleIds |-> NoRow]
  /\ poop' = [i \in PoopIds |-> NoRow]
  /\ UNCHANGED <<reconnectAttempts, reconnecting, failedRun, usedIds, rtSent,
                 rtReceived, delivered, sessionDeviceId, ownReceived,
                 ownEffects, syncVars, remoteVars, pullVars, callVars,
                 initVars, emitVars, idVars, lateVars>>

(***************************************************************************)
(* Specification of the queue and its drain                                *)
(***************************************************************************)
Init ==
  /\ isOnline = FALSE
  /\ isSyncing = FALSE
  /\ syncQueue = <<>>
  /\ storedQueue = NoValue
  /\ drains = [s \in Slots |-> IdleDrain]
  /\ nextItemId = 1
  /\ hybrid = "none"
  /\ entries = [i \in BottleIds |-> NoRow]
  /\ poop = [i \in PoopIds |-> NoRow]
  /\ bottles = [i \in BottleIds |-> NoRow]
  /\ poops = [i \in PoopIds |-> NoRow]
  /\ poopApi \in BOOLEAN
  /\ bottleApi = TRUE
  /\ usedIds = {}
  /\ isConnected = FALSE
  /\ rtSent = 0
  /\ rtReceived = 0
  /\ delivered = 0
  /\ sessionDeviceId = "null"
  /\ ownReceived = 0
  /\ ownEffects = 0
  /\ pulls = [s \in PullSlots |-> IdlePull]
  /\ syncCompleted = 0
  /\ listNotFound = FALSE
  /\ sentInBusy = {}
  /\ dupSend = FALSE
  /\ failures = [i \in ItemIds |-> 0]
  /\ cut = {}
  /\ reentered = FALSE
  /\ restarted = FALSE
  /\ offlineCall = FALSE
  /\ returned = "none"
  /\ emitted = <<>>
  /\ InitSocket
  /\ InitStore
  /\ InitUtil

\* the mutations of the user, the drain and the connectivity of the device
NextQueue ==
  \/ AddBottleHybrid
  \/ UpdateBottleHybrid
  \/ DeleteBottleHybrid
  \/ AddPoopHybrid
  \/ UpdatePoopHybrid
  \/ DeletePoopHybrid
  \/ HybridResume
  \/ SyncCall
  \/ \E s \in Slots : ProcessItem(s)
  \/ \E s \in Slots : SyncFinish(s)
  \/ \E c \in BOOLEAN : NetInfoChange(c)

Next ==
  \/ NextQueue
  \/ Restart
  \/ Reinitialize

Spec == Init /\ [][Next]_vars

\* the same device with its socket, without restarts
NextHybrid ==
  \/ NextQueue
  \/ LocalWriteFails
  \/ SocketOpen
  \/ SocketClose

SpecHybrid == Init /\ [][NextHybrid]_vars

(***************************************************************************)
(* Specification of the pull and of the real-time channel: the device has  *)
(* an empty queue; its records are those an earlier session left, still    *)
(* 'pending' because no drain ever marks a row synced                      *)
(***************************************************************************)
InitPull ==
  /\ isOnline = FALSE
  /\ isSyncing = FALSE
  /\ syncQueue = <<>>
  /\ storedQueue = saveSyncQueue(<<>>)
  /\ drains = [s \in Slots |-> IdleDrain]
  /\ nextItemId = 1
  /\ hybrid = "none"
  /\ poopApi \in BOOLEAN
  /\ bottleApi \in BOOLEAN
  /\ \E a \in NewAmounts, t \in UserTimes, c \in UserBottleColors :
       \E row \in IF bottleApi
                  THEN {NoRow, [amount |-> a, time |-> t, color |-> c]}
                  ELSE {NoRow} :
         /\ bottles = [i \in BottleIds |-> row]
         /\ entries = [i \in BottleIds |->
                         IF row = NoRow THEN NoRow
                         ELSE [amount |-> a, time |-> t, color |-> c,
                               sync_status |-> "pending"]]
         /\ usedIds = IF row = NoRow THEN {} ELSE BottleIds
  /\ poop = [i \in PoopIds |-> NoRow]
  /\ poops = [i \in PoopIds |-> NoRow]
  /\ isConnected = FALSE
  /\ rtSent = 0
  /\ rtReceived = 0
  /\ delivered = 0
  /\ sessionDeviceId = "null"
  /\ ownReceived = 0
  /\ ownEffects = 0
  /\ pulls = [s \in PullSlots |-> IdlePull]
  /\ syncCompleted = 0
  /\ listNotFound = FALSE
  /\ sentInBusy = {}
  /\ dupSend = FALSE
  /\ failures = [i \in ItemIds |-> 0]
  /\ cut = {}
  /\ reentered = FALSE
  /\ restarted = FALSE
  /\ offlineCall = FALSE
  /\ returned = "none"
  /\ emitted = <<>>
  /\ InitSocket
  /\ InitStore
  /\ InitUtil

NextPull ==
  \/ \E c \in BOOLEAN : NetInfoChange(c)
  \/ SocketOpen
  \/ SocketClose
  \/ \E type \in MessageTypes, deviceId \in DeviceIds : ReceiveMessage(type, deviceId)
  \/ \E s \in PullSlots : GetBottles(s)
  \/ \E s \in PullSlots : BottleDeletions(s)
  \/ \E s \in PullSlots : Bottles(s)
  \/ \E s \in PullSlots : GetPoops(s)
  \/ \E s \in PullSlots : PoopDeletions(s)
  \/ \E s \in PullSlots : Poops(s)
  \/ OtherBottleWrite
  \/ OtherPoopWrite

SpecPull == InitPull /\ [][NextPull]_vars

(***************************************************************************)
(* Specification of a device that creates feeding records, drains its      *)
(* queue and pulls on the messages of another device; nobody deletes or    *)
(* edits a record                                                          *)
(***************************************************************************)
NextCreate ==
  \/ AddBottleHybrid
  \/ HybridResume
  \/ \E s \in Slots : ProcessItem(s)
  \/ \E s \in Slots : SyncFinish(s)
  \/ \E c \in BOOLEAN : NetInfoChange(c)
  \/ SocketOpen
  \/ SocketClose
  \/ \E type \in PullTypes : ReceiveMessage(type, OtherDeviceId)
  \/ \E s \in PullSlots : GetBottles(s)
  \/ \E s \in PullSlots : BottleDeletions(s)
  \/ \E s \in PullSlots : Bottles(s)
  \/ \E s \in PullSlots : GetPoops(s)
  \/ \E s \in PullSlots : PoopDeletions(s)
  \/ \E s \in PullSlots : Poops(s)

SpecCreate == Init /\ [][NextCreate]_vars

\* a message of another device that arrives while no pull is in progress
QuietMessage(type) ==
  /\ FreePullSlots(pulls) = PullSlots
  /\ ReceiveMessage(type, OtherDeviceId)

(***************************************************************************)
(* Specification of a device that edits the feeding record it holds,       *)
(* drains its queue and pulls on the messages of another device; no other  *)
(* device writes                                                           *)
(***************************************************************************)
\* the device holds a feeding record that the server holds too
InitEdit ==
  /\ InitPull
  /\ bottleApi
  /\ Present(entries) # {}

NextEdit ==
  \/ UpdateBottleHybrid
  \/ HybridResume
  \/ \E s \in Slots : ProcessItem(s)
  \/ \E s \in Slots : SyncFinish(s)
  \/ \E c \in BOOLEAN : NetInfoChange(c)
  \/ SocketOpen
  \/ \E type \in PullTypes : QuietMessage(type)
  \/ \E s \in PullSlots : GetBottles(s)
  \/ \E s \in PullSlots : BottleDeletions(s)
  \/ \E s \in PullSlots : Bottles(s)
  \/ \E s \in PullSlots : GetPoops(s)
  \/ \E s \in PullSlots : PoopDeletions(s)
  \/ \E s \in PullSlots : Poops(s)

SpecEdit == InitEdit /\ [][NextEdit]_vars

\* the socket of the real-time channel: its opens, its closes (1000 is a
\* clean close, 1006 an abnormal one), the reconnect timer and disconnect()
NextSocket ==
  \/ \E profile \in {"ok", "failed"} : Initialize(profile)
  \/ WsOpen
  \/ \E code \in {1000, 1006} : WsClose(code)
  \/ TimerFires
  \/ \E profile \in {"ok", "failed"} : Reconnect(profile)
  \/ Disconnect

SpecSocket == Init /\ [][NextSocket]_vars

\* the callers of initDatabase, interleaved at its awaits
NextStore ==
  \/ \E c \in Callers : InitDatabase(c)
  \/ \E c \in Callers, ok \in BOOLEAN : OpenDatabase(c, ok)
  \/ \E c \in Callers : createTables(c)
  \/ \E c \in Callers, ok \in BOOLEAN : TestConnection(c, ok)
  \/ \E c \in Callers : Poll(c)

SpecStore == Init /\ [][NextStore]_vars

\* the subscribers of the change events and the emits
NextEmitter ==
  \/ \E l \in ListenerIds : AddListener(l)
  \/ \E l \in ListenerIds : RemoveListener(l)
  \/ \E throwing \in SUBSET ListenerIds : Emit(throwing)

SpecEmitter == Init /\ [][NextEmitter]_vars

\* calls of generateUniqueId under an advancing clock
NextIds ==
  \/ Tick
  \/ \E uuid \in Uuids : generateUniqueId(uuid)

SpecIds == Init /\ [][NextIds]_vars

\* a session that adds feeding records, drains them, holds a socket and
\* ends with a logout
NextLogout ==
  \/ AddBottleHybrid
  \/ HybridResume
  \/ \E s \in Slots : ProcessItem(s)
  \/ \E s \in Slots : SyncFinish(s)
  \/ \E c \in BOOLEAN : NetInfoChange(c)
  \/ Initialize("ok")
  \/ WsOpen
  \/ Logout

SpecLogout == Init /\ [][NextLogout]_vars

\* the hybrid inserts and edits of the user, the drain and the connectivity; the
\* continuations of the promises (the resumption of a hybrid mutation, the
\* requests of a pass and its end) are run by the event loop, so they are
\* taken whenever they stay enabled; the user and the network owe nothing
NextLive ==
  \/ AddBottleHybrid
  \/ UpdateBottleHybrid
  \/ HybridResume
  \/ \E s \in Slots : ProcessItem(s)
  \/ \E s \in Slots : SyncFinish(s)
  \/ \E c \in BOOLEAN : NetInfoChange(c)

SpecLive ==
  /\ Init /\ [][NextLive]_vars
  /\ WF_vars(HybridResume)
  /\ \A s \in Slots : WF_vars(ProcessItem(s)) /\ WF_vars(SyncFinish(s))

\* the device holds a feeding record that the server holds too; the user
\* deletes it and adds a diaper record, another device may delete the
\* feeding record first, and the drain replays the queue
NextDelete ==
  \/ DeleteBottleHybrid
  \/ AddPoopHybrid
  \/ HybridResume
  \/ \E s \in Slots : ProcessItem(s)
  \/ \E s \in Slots : SyncFinish(s)
  \/ \E c \in BOOLEAN : NetInfoChange(c)
  \/ OtherBottleWrite

SpecDelete == InitEdit /\ [][NextDelete]_vars

\* the sockets of one device: connect() called by initialize() and by the
\* reconnect callback, the server's connection handler, and the open and
\* close events of every socket the device has created
NextConn ==
  \/ Connect
  \/ \E i \in 1..MaxSockets : Connection(i)
  \/ \E i \in 1..MaxSockets : OnOpen(i)
  \/ \E i \in 1..MaxSockets, code \in {1000, 1006} : OnClose(i, code)

SpecConn == Init /\ [][NextConn]_vars

\* the calls of getDeviceId of a start-up, the requests to AsyncStorage that
\* settle in the order they were made, and a relaunch of the app
NextDevice ==
  \/ \E c \in DevCallers : GetDeviceId(c)
  \/ \E ok \in BOOLEAN : StorageSettles(ok)
  \/ \E c \in DevCallers : UseDeviceId(c)
  \/ Relaunch

SpecDevice == Init /\ [][NextDevice]_vars

\* the sockets of one device and the real-time messages it sends, under an
\* advancing clock and a changing connectivity
NextSend ==
  \/ NextConn
  \/ Tick
  \/ \E c \in BOOLEAN : NetInfoChange(c)
  \/ SendRealTimeMessage
  \/ \E type \in SentTypes, profile \in Fates : SendResumes(type, profile)

SpecSend == Init /\ [][NextSend]_vars

\* the WebSocket server under connections, messages and closes of the
\* devices of two accounts
NextWss ==
  \/ \E token \in Tokens, p \in UserIdParams, device \in WssDevices :
       WssConnection(token, p, device)
  \/ \E c \in 1..MaxConns : WssMessage(c)
  \/ \E c \in 1..MaxConns : WssClose(c)

SpecWss == Init /\ [][NextWss]_vars

\* the hybrid inserts and edits, the connectivity, and passes whose requests
\* succeed, are rejected or time out and whose final save AsyncStorage
\* accepts or rejects; every request settles (axios timeout of 10 s) and
\* the event loop runs the continuations, so the steps of a pass and the
\* resumption of a hybrid mutation are taken whenever they stay enabled
NextDrain ==
  \/ AddBottleHybrid
  \/ UpdateBottleHybrid
  \/ HybridResume
  \/ \E s \in Slots, saved \in BOOLEAN : ProcessItemSaving(s, saved)
  \/ \E s \in Slots : SyncFinish(s)
  \/ \E c \in BOOLEAN : NetInfoChange(c)

SpecDrain ==
  /\ Init /\ [][NextDrain]_vars
  /\ WF_vars(HybridResume)
  /\ \A s \in Slots :
       /\ WF_vars(\E saved \in BOOLEAN : ProcessItemSaving(s, saved))
       /\ WF_vars(SyncFinish(s))

\* the queue of a process that stays alive: mutations, passes, connectivity
\* changes and initializeAfterAuth at any moment
NextReinit ==
  \/ NextQueue
  \/ Reinitialize

SpecReinit == Init /\ [][NextReinit]_vars

(***************************************************************************)
(* Specification of the local tables across an update of the app: the      *)
(* database comes from this version or from one whose tables had no        *)
(* sync_status column, with the records that version left                  *)
(***************************************************************************)
\* the sync_status of the rows a table holds when the app starts
LegacyStatuses(hasSyncStatus) ==
  IF hasSyncStatus THEN {"pending", "synced"} ELSE {NoColumn}

InitLegacy ==
  /\ isOnline = FALSE
  /\ isSyncing = FALSE
  /\ syncQueue = <<>>
  /\ storedQueue = saveSyncQueue(<<>>)
  /\ drains = [s \in Slots |-> IdleDrain]
  /\ nextItemId = 1
  /\ hybrid = "none"
  /\ poopApi = TRUE
  /\ bottleApi = TRUE
  /\ columns \in [Tables -> BOOLEAN]
  /\ migrated = FALSE
  /\ \E a \in NewAmounts, t \in UserTimes, c \in UserBottleColors :
       \E st \in LegacyStatuses(columns["entries"]) :
         entries \in {[i \in BottleIds |-> NoRow],
                      [i \in BottleIds |->
                         [amount |-> a, time |-> t, color |-> c,
                          sync_status |-> st]]}
  /\ \E t \in UserTimes, n \in UserInfos, c \in UserPoopColors :
       \E st \in LegacyStatuses(columns["poop"]) :
         poop \in {[i \in PoopIds |-> NoRow],
                   [i \in PoopIds |->
                      [time |-> t, info |-> n, color |-> c,
                       sync_status |-> st]]}
  /\ usedIds = Present(entries) \cup Present(poop)
  /\ bottles = [i \in BottleIds |-> NoRow]
  /\ poops = [i \in PoopIds |-> NoRow]
  /\ isConnected = FALSE
  /\ rtSent = 0
  /\ rtReceived = 0
  /\ delivered = 0
  /\ sessionDeviceId = "null"
  /\ ownReceived = 0
  /\ ownEffects = 0
  /\ pulls = [s \in PullSlots |-> IdlePull]
  /\ syncCompleted = 0
  /\ listNotFound = FALSE
  /\ sentInBusy = {}
  /\ dupSend = FALSE
  /\ failures = [i \in ItemIds |-> 0]
  /\ cut = {}
  /\ reentered = FALSE
  /\ restarted = FALSE
  /\ offlineCall = FALSE
  /\ returned = "none"
  /\ emitted = <<>>
  /\ InitSocket
  /\ InitStore
  /\ InitEmitter
  /\ InitIds
  /\ loggedOut = FALSE
  /\ InitConn
  /\ InitDevice
  /\ InitSend
  /\ InitWss
  /\ InitScreen

\* every statement on the tables follows "await this.initDatabase()": the
\* callers and the pulls whose statements can run
Initialized == IF migrated THEN {TRUE} ELSE {}
InitializedSlots == IF migrated THEN PullSlots ELSE {}

\* the device adds diaper records, drains its queue and pulls
NextSchema ==
  \/ runMigrations
  \/ \E ready \in Initialized : AddPoopHybrid
  \/ HybridResume
  \/ \E s \in Slots : ProcessItem(s)
  \/ \E s \in Slots : SyncFinish(s)
  \/ \E c \in BOOLEAN : NetInfoChange(c)
  \/ SocketOpen
  \/ \E type \in PullTypes : QuietMessage(type)
  \/ \E s \in PullSlots : GetBottles(s)
  \/ \E s \in InitializedSlots : BottleDeletions(s)
  \/ \E s \in InitializedSlots : Bottles(s)
  \/ \E s \in PullSlots : GetPoops(s)
  \/ \E s \in InitializedSlots : PoopDeletions(s)
  \/ \E s \in InitializedSlots : Poops(s)
  \/ OtherPoopWrite

SpecSchema == InitLegacy /\ [][NextSchema]_vars

(***************************************************************************)
(* Specification of the starts of the dashboard: the device pulls only     *)
(* from initializeScreen, while other devices write                        *)
(***************************************************************************)
NextScreen ==
  \/ InitializeScreen
  \/ ScreenResumes
  \/ \E c \in BOOLEAN : NetInfoChange(c)
  \/ \E s \in PullSlots : GetBottles(s)
  \/ \E s \in PullSlots : BottleDeletions(s)
  \/ \E s \in PullSlots : Bottles(s)
  \/ \E s \in PullSlots : GetPoops(s)
  \/ \E s \in PullSlots : PoopDeletions(s)
  \/ \E s \in PullSlots : Poops(s)
  \/ OtherBottleWrite
  \/ OtherPoopWrite

SpecScreen == InitPull /\ [][NextScreen]_vars

(***************************************************************************)
(* Properties                                                              *)
(***************************************************************************)
QueueIds(q) == {q[i].id : i \in 1..Len(q)}

\* C1: a sync() invoked while an earlier one is in flight returns without
\* starting a pass, without a remote call and without touching the queue;
\* at most one pass is in flight and no item is sent twice in one busy
\* period.
C1_DrainNotReentrant ==
  /\ [](Cardinality(ActiveDrains) <= 1 /\ ~dupSend)
  /\ [][/\ isSyncing => \A s \in Slots : drains'[s].active => drains[s].active
        /\ (reentered' /\ ~reentered) =>
             /\ syncQueue' = syncQueue
             /\ storedQueue' = storedQueue
             /\ <<bottles, poops>>' = <<bottles, poops>>]_vars

\* a sync() has returned at the busy check of a pass that went on to send
C1_Witness ==
  /\ reentered /\ isSyncing
  /\ \E s \in Slots : drains[s].active /\ drains[s].idx > 1

DrainStep(s) ==
  /\ drains[s].active /\ drains[s].phase = "loop"
  /\ drains'[s].active /\ drains'[s].idx = drains[s].idx + 1

\* the item that step processes
StepItem(s) == drains[s].items[drains[s].idx]

IdSeq(q) == [k \in 1..Len(q) |-> q[k].id]

\* the remote row an update payload describes
BottleOf(d) == [amount |-> d.amount, time |-> d.time, color |-> d.color]
PoopOf(d) ==
  [time |-> d.time, info |-> OrNull(Field(d, "info")),
   color |-> IF Field(d, "color") = "undefined" THEN DefaultPoopColor
             ELSE d.color]

\* the remote store holds the record of the update item it
HoldsRecord(it) ==
  IF it.type = "bottle" THEN bottles'[it.data.id] = BottleOf(it.data)
  ELSE poops'[it.data.id] = PoopOf(it.data)

C7_ReplayedCreateAccepted ==
  [][\A s \in Slots :
       (/\ DrainStep(s)
        /\ StepItem(s).action = "create"
        /\ IF StepItem(s).type = "bottle"
           THEN bottles[StepItem(s).data.id] # NoRow
           ELSE poops[StepItem(s).data.id] # NoRow)
       => drains'[s].how # "rejected"]_vars

Confirmed == {"ok", "fallbackOk", "notFound"}

LocalAfter(it) == IF it.type = "bottle" THEN entries' ELSE poop'

\* C10: a hybrid mutation performed offline writes the local store and
\* appends exactly one item to the queue in memory and in storage; it starts
\* no pass, calls no remote endpoint and sends no real-time message; a
\* record added offline is pending and stays so while the device is offline.
C10_OfflineMutation ==
  /\ [](~offlineCall)
  /\ [][~isOnline =>
          /\ (hybrid = "none" /\ hybrid' # "none") =>
               LET it == syncQueue'[Len(syncQueue')]
                   row == LocalAfter(it)[it.data.id]
               IN /\ syncQueue' = Append(syncQueue, it)
                  /\ it.retryCount = 0
                  /\ loadSyncQueue(storedQueue', <<>>) = syncQueue'
                  /\ IF it.action = "delete" THEN row = NoRow
                     ELSE /\ row # NoRow
                          /\ \A k \in DOMAIN it.data \ {"id"} : row[k] = it.data[k]
                  /\ it.action = "create" => row.sync_status = "pending"
                  /\ UNCHANGED <<drains, isSyncing, bottles, poops, rtSent>>
          /\ (hybrid # "none" /\ hybrid' = "none") =>
               UNCHANGED <<syncQueue, storedQueue, drains, isSyncing, bottles,
                           poops, rtSent, entries, poop>>
          /\ ~isOnline' =>
               /\ \A i \in Present(entries) \cap Present(entries') :
                    entries[i].sync_status = "pending" =>
                      entries'[i].sync_status = "pending"
               /\ \A i \in Present(poop) \cap Present(poop') :
                    poop[i].sync_status = "pending" =>
                      poop'[i].sync_status = "pending"]_vars

\* two mutations were made offline, the socket still marked connected:
\* both items wait in the queue, nothing was sent
C10_Witness ==
  /\ ~isOnline /\ isConnected /\ hybrid = "none"
  /\ Len(syncQueue) = MaxItems
  /\ \A k \in 1..Len(syncQueue) : failures[syncQueue[k].id] = 0
  /\ ~isSyncing /\ rtSent = 0
  /\ \E i \in BottleIds : entries[i] # NoRow /\ entries[i].sync_status = "pending"
  /\ Present(bottles) = {} /\ Present(poops) = {}

\* C3: a received message stamped with the device's own id is never handed
\* to the listeners and starts no pull and changes no local table, whatever
\* its type.
C3_OwnMessageIgnored ==
  /\ ownEffects = 0
  /\ delivered = rtReceived - ownReceived

\* own and foreign messages were both received; only the foreign one counted
C3_Witness ==
  /\ ownReceived > 0
  /\ delivered > 0
  /\ rtReceived = MaxMessages

\* a pull finishes with its completion event
Completes(s) ==
  /\ pulls[s].active /\ ~pulls'[s].active
  /\ syncCompleted' = syncCompleted + 1

\* the ids a deletion phase had to remove, and one event for each
Inferred(s, local, cloud) ==
  \A i \in DOMAIN cloud :
    pulls[s].deleted[i] = IF i \in local \ Present(cloud) THEN 1 ELSE 0

BottlesStep(s) ==
  /\ pulls[s].active /\ pulls[s].pc = "bottles"
  /\ pulls'[s].active /\ pulls'[s].pc = "getPoops"

PoopsStep(s) ==
  /\ pulls[s].active /\ pulls[s].pc = "poops"
  /\ ~pulls'[s].active

\* C5: the upsert of a pull leaves, for every fetched record that is absent
\* locally or differs in a synchronized field (feeding: amount, time, color;
\* diaper: time, note, color), a local row with the remote values, synced.
C5_PullUpsert ==
  [][\A s \in PullSlots :
       /\ BottlesStep(s) =>
            \A i \in Present(pulls[s].cloudBottles) :
              LET r == pulls[s].cloudBottles[i]
                  l == entries[i]
              IN (\/ l = NoRow
                  \/ l.amount # r.amount \/ l.time # r.time \/ l.color # r.color)
                 => entries'[i] = [amount |-> r.amount, time |-> r.time,
                                   color |-> r.color, sync_status |-> "synced"]
       /\ PoopsStep(s) =>
            \A i \in Present(pulls[s].cloudPoops) :
              LET r == pulls[s].cloudPoops[i]
                  l == poop[i]
              IN (\/ l = NoRow
                  \/ l.time # r.time \/ l.info # r.info \/ l.color # r.color)
                 => poop'[i] = [time |-> r.time, info |-> r.info,
                                color |-> r.color, sync_status |-> "synced"]]_vars

C12_DrainedIsSynced ==
  \A i \in BottleIds :
    (/\ isOnline /\ ~isSyncing /\ hybrid = "none" /\ syncQueue = <<>>
     /\ entries[i] # NoRow /\ bottles[i] # NoRow
     /\ bottles[i] = [amount |-> entries[i].amount, time |-> entries[i].time,
                      color |-> entries[i].color])
    => entries[i].sync_status = "synced"

\* the pulls in progress
ActivePulls == {s \in PullSlots : pulls[s].active}

\* C13: at most one pull (syncFromCloud) is in progress on the device; a
\* pull requested meanwhile is dropped.
C13_PullNotReentrant ==
  /\ Cardinality(ActivePulls) <= 1

\* a pull receives the answer of a list request
ListStep(s) ==
  /\ pulls[s].active /\ pulls[s].pc \in {"getBottles", "getPoops"}
  /\ pulls'[s] # pulls[s]

\* C14: when a list endpoint answers 404 the pull skips that record kind
\* and still applies the other and emits its completion event once: after a
\* 404 for feedings it goes on to the diapers, after a 404 for diapers it
\* completes with the feedings applied.
C14_UnavailableKindSkipped ==
  [][\A s \in PullSlots :
       (ListStep(s) /\ listNotFound' /\ bottleApi # poopApi) =>
         IF pulls[s].pc = "getBottles"
         THEN /\ pulls'[s].active /\ pulls'[s].pc = "getPoops"
              /\ syncCompleted' = syncCompleted
         ELSE /\ ~pulls'[s].active
              /\ syncCompleted' = syncCompleted + 1]_vars

\* the record ids that queued create items still carry
QueuedCreates ==
  {syncQueue[k].data.id : k \in {j \in 1..Len(syncQueue) :
                                   syncQueue[j].action = "create"}}

\* C15: a record a user created and nobody deleted is never lost: it is in
\* the local store of its device or in the remote store (or, at the least,
\* still waiting in the queue to be created remotely).
C15_RecordNeverLost ==
  /\ \A i \in BottleIds \cap usedIds :
       entries[i] # NoRow \/ bottles[i] # NoRow \/ i \in QueuedCreates
  /\ \A i \in PoopIds \cap usedIds :
       poop[i] # NoRow \/ poops[i] # NoRow \/ i \in QueuedCreates

\* the local row i carries an edit that still waits in the queue
QueuedEdit(i) ==
  \E k \in 1..Len(syncQueue) :
    /\ syncQueue[k].type = "bottle" /\ syncQueue[k].action = "update"
    /\ syncQueue[k].data.id = i
    /\ entries[i] # NoRow
    /\ entries[i].amount = syncQueue[k].data.amount
    /\ entries[i].time = syncQueue[k].data.time
    /\ entries[i].color = syncQueue[k].data.color

\* C16: reconciliation keeps the later version: the upsert of a pull does
\* not overwrite a local edit that is newer than the remote version and
\* still waits in the queue (no other device writes here, so every remote
\* version is older than the queued edit).
C16_PullKeepsNewerEdit ==
  [][\A s \in PullSlots :
       BottlesStep(s) =>
         \A i \in BottleIds : QueuedEdit(i) => entries'[i] = entries[i]]_vars

\* C17: a reconnect attempt that fails and leaves k < 5 failed attempts in a
\* row is followed by the next attempt, scheduled after 1 s x 2^k; one that
\* leaves 5 in a row reports the persistent error and schedules nothing; an
\* open resets the attempt counter
C17_ExponentialBackoff ==
  [][/\ failedRun' = failedRun + 1 =>
          IF failedRun' < maxReconnectAttempts
            THEN reconnectTimeout' = ReconnectDelay(failedRun')
            ELSE /\ reconnectTimeout' = 0
                 /\ error' = "Max reconnection attempts reached"
     /\ (ws' = "open" /\ ws # "open") => reconnectAttempts' = 0]_vars

\* C18: once disconnect() has been called, and until initialize() is called
\* again, there is no socket and no reconnect timer
C18_DisconnectIsFinal ==
  disconnected => ws = "none" /\ reconnectTimeout = 0

Opening == {c \in Callers : callers[c].pc = "opening"}
Initializers == {c \in Callers : callers[c].pc \in {"opening", "creating", "testing"}}
\* a caller leaves the polling loop of initDatabase
PollReturns(c) == callers[c].pc = "waiting" /\ callers'[c].pc = "returned"

\* C19 (as stated): a caller that found an initialization in progress
\* returns the outcome of that initialization
C19_WaiterGetsThatOutcome ==
  \A c \in Callers :
    (callers[c].pc = "returned" /\ callers[c].waited) =>
      callers[c].result = outcome[callers[c].init]

\* C19: at most one caller at a time is between the busy flag and the end of
\* the initialization, so the store is never being opened twice; every
\* other caller waits, comes back only after the initialization it found
\* has finished and while none is running, and returns the outcome of the
\* initialization that finished last; each initialization creates the
\* tables at most once, and only after it opened the store; an
\* initialization that finds the store open opens nothing
C19_InitDatabase ==
  /\ [](/\ Cardinality(Initializers) <= 1
        /\ Cardinality(Opening) <= 1
        /\ isInitializing <=> Initializers # {}
        /\ \A g \in Inits : created[g] <= 1)
  /\ [][/\ \A c \in Callers :
             PollReturns(c) =>
               /\ ~isInitializing
               /\ outcome[callers[c].init] # "none"
               /\ callers'[c].result = outcome[initCount]
        /\ \A c \in Callers :
             (callers[c].pc # "waiting" /\ callers'[c].pc = "waiting") =>
               isInitializing /\ callers'[c].init = initCount
        /\ \A g \in Inits :
             created'[g] # created[g] =>
               \E c \in Callers : /\ callers[c].init = g
                                  /\ callers[c].pc = "creating"
                                  /\ db = "open"
        /\ \A c \in Callers :
             (db = "open" /\ callers[c].pc \in {"idle", "returned"}
                /\ callers'[c].pc \notin {"idle", "returned", "waiting"}) =>
               callers'[c].pc = "testing" /\ db' = "open"]_vars

\* a caller that waited through two initializations has returned the
\* outcome of the second, which differs from that of the first
C19_Witness ==
  \E c \in Callers :
    /\ callers[c].pc = "returned" /\ callers[c].waited
    /\ callers[c].init = 1 /\ initCount = 2
    /\ outcome[1] = "false" /\ outcome[2] = "true"
    /\ callers[c].result = "true"
    /\ created[2] = 1

\* a hybrid insert of the given kind acts: its create item joins the queue
InsertStep(type) ==
  /\ Len(syncQueue') = Len(syncQueue) + 1
  /\ syncQueue'[Len(syncQueue')].type = type
  /\ syncQueue'[Len(syncQueue')].action = "create"
Inserted == syncQueue'[Len(syncQueue')].data

\* C20: an insert that succeeds adds, under a fresh id, exactly one local
\* record, pending and with the fields of the input, changes no other local
\* or remote record, sends nothing, and emits exactly one BOTTLE_ADDED
\* (POOP_ADDED) event; a mutation whose local write fails leaves the local
\* store and the generated ids unchanged and emits no event
C20_InsertThenQuery ==
  [][/\ InsertStep("bottle") =>
          /\ Inserted.id \in BottleIds \ usedIds
          /\ entries[Inserted.id] = NoRow
          /\ entries' = [entries EXCEPT ![Inserted.id] =
                           [amount |-> Inserted.amount, time |-> Inserted.time,
                            color |-> Inserted.color,
                            sync_status |-> "pending"]]
          /\ emitted' = <<"BOTTLE_ADDED">>
          /\ UNCHANGED <<poop, bottles, poops, rtSent>>
     /\ InsertStep("poop") =>
          /\ Inserted.id \in PoopIds \ usedIds
          /\ poop[Inserted.id] = NoRow
          /\ poop' = [poop EXCEPT ![Inserted.id] =
                        [time |-> Inserted.time, info |-> Inserted.info,
                         color |-> Inserted.color,
                         sync_status |-> "pending"]]
          /\ emitted' = <<"POOP_ADDED">>
          /\ UNCHANGED <<entries, bottles, poops, rtSent>>
     /\ (returned' = "false" /\ returned # "false") =>
          /\ emitted' = <<>>
          /\ UNCHANGED <<entries, poop, usedIds>>]_vars

\* a diaper record has just been inserted after a feeding record, before
\* anything was sent: both are pending and the event of the second is out
C20_Witness ==
  /\ hybrid = "poop" /\ returned = "pending"
  /\ emitted = <<"POOP_ADDED">>
  /\ Cardinality(Present(entries)) = 1 /\ Cardinality(Present(poop)) = 1
  /\ \A i \in Present(entries) : entries[i].sync_status = "pending"
  /\ \A i \in Present(poop) : poop[i].sync_status = "pending"
  /\ Present(bottles) = {} /\ Present(poops) = {} /\ rtSent = 0
  /\ Len(syncQueue) = 2

\* the listeners the last emit called, in the order of the calls
Called == [k \in 1..Len(invoked) |-> invoked[k].listener]

\* C21: an emit calls every listener subscribed at that moment exactly once
\* and in subscription order, whichever of them throw, and does not throw
\* itself
C21_EmitReachesEveryListener ==
  /\ Called = subscribed
  /\ ~emitThrew

\* three listeners were subscribed, the first one threw, the other two were
\* called after it
C21_Witness ==
  /\ Len(subscribed) = 3
  /\ Len(invoked) = 3
  /\ invoked[1].threw
  /\ ~invoked[3].threw
  /\ ~emitThrew

\* C22 (as stated): the timestamp component of the generated ids grows
\* strictly from call to call, and the ids are pairwise distinct
C22_TimestampStrictlyIncreasing ==
  \A i, j \in 1..Len(generated) :
    i < j => /\ generated[i].timestamp < generated[j].timestamp
             /\ generated[i] # generated[j]

\* C23 (as stated): when logout() returns, the local tables are empty, the
\* socket is closed with no reconnect pending, and the sync queue is empty
\* in memory and in storage
C23_LogoutCleansUp ==
  [][(loggedOut' /\ ~loggedOut) =>
       /\ Present(entries') = {} /\ Present(poop') = {}
       /\ ws' = "none" /\ reconnectTimeout' = 0 /\ ~isConnected'
       /\ syncQueue' = <<>>
       /\ storedQueue' \in {NoValue, saveSyncQueue(<<>>)}]_vars

\* C24 (as stated): the deletion step of a pull, on a device that is
\* online, never removes a local record whose create item is in the queue
C24_PullSparesQueuedCreate ==
  [][\A s \in PullSlots :
       (/\ isOnline
        /\ pulls[s].active /\ pulls[s].pc = "bottleDeletions"
        /\ pulls'[s].pc = "bottles") =>
         \A i \in QueuedCreates \cap BottleIds :
           entries[i] # NoRow => entries'[i] # NoRow]_vars

\* C25 (as stated): once the queue is empty and the drain is over, a
\* feeding record that was created and then deleted on this device is
\* absent from the remote store, provided no item was abandoned at the retry
\* ceiling and no pass was cut short
C25_DeleteAfterCreateWins ==
  \A i \in BottleIds :
    (/\ syncQueue = <<>> /\ ~isSyncing /\ hybrid = "none"
     /\ i \in usedIds /\ entries[i] = NoRow
     /\ cut = {}
     /\ \A k \in ItemIds : failures[k] < RetryCeiling) =>
      bottles[i] = NoRow

\* the item with this id is in the queue
Queued(k) == \E j \in 1..Len(syncQueue) : syncQueue[j].id = k
\* the item with this id has been sent: it failed at least once or it has
\* left the queue
Attempted(k) == failures[k] > 0 \/ ~Queued(k)

\* C26 (as stated): an item that is queued while the device is online is
\* eventually attempted, unless the device goes offline
C26_QueuedItemIsAttempted ==
  \A k \in ItemIds :
    (Queued(k) /\ isOnline) ~> (Attempted(k) \/ ~isOnline)

\* the positions of the queue items that are not in the snapshot of pass s:
\* they were enqueued while the pass was under way
Late(s) == {k \in 1..Len(syncQueue) : syncQueue[k].id \notin QueueIds(drains[s].items)}

\* C27: while a pass is under way, up to and including its end, an item
\* that was enqueued after the pass began is not sent by the pass, keeps
\* retryCount 0 and stays, unchanged, in the queue in memory and in the
\* persisted queue; enqueueing does not change the snapshot of the pass
C27_EnqueuedDuringDrainKept ==
  [][\A s \in Slots :
       drains[s].active =>
         /\ \A k \in Late(s) :
              /\ syncQueue[k].retryCount = 0
              /\ syncQueue[k].id \notin sentInBusy'
              /\ \E j \in 1..Len(syncQueue') : syncQueue'[j] = syncQueue[k]
              /\ LET persisted == loadSyncQueue(storedQueue', <<>>)
                 IN \E j \in 1..Len(persisted) : persisted[j] = syncQueue[k]
         /\ Len(syncQueue') > Len(syncQueue) =>
              /\ drains'[s].items = drains[s].items
              /\ syncQueue'[Len(syncQueue')].id \notin QueueIds(drains[s].items)]_vars

\* a pass has sent its item and ended; the item enqueued while it was under
\* way is in the queue and in storage, never sent
C27_Witness ==
  /\ ~isSyncing /\ isOnline /\ hybrid = "none"
  /\ sentInBusy # {}
  /\ \E k \in 1..Len(syncQueue) :
       /\ syncQueue[k].id \notin sentInBusy
       /\ syncQueue[k].retryCount = 0
       /\ failures[syncQueue[k].id] = 0
       /\ \E j \in 1..Len(loadSyncQueue(storedQueue, <<>>)) :
            loadSyncQueue(storedQueue, <<>>)[j] = syncQueue[k]

\* C28 (as stated): a pass never marks for removal a create item whose
\* request was not delivered, when none of its earlier requests reached the
\* server either (the remote store does not hold the record)
C28_NetworkFailureKeepsItem ==
  [][\A s \in Slots :
       (/\ DrainStep(s)
        /\ StepItem(s).type = "bottle" /\ StepItem(s).action = "create"
        /\ drains'[s].how = "fail"
        /\ bottles'[StepItem(s).data.id] = NoRow) =>
         StepItem(s).id \notin drains'[s].successful]_vars

\* the retryCount of the queue item with this id, -1 when it has left
RetryOf(q, id) ==
  IF \E j \in 1..Len(q) : q[j].id = id
  THEN (CHOOSE x \in {q[j] : j \in 1..Len(q)} : x.id = id).retryCount
  ELSE -1

\* C29: when a pass replays a delete and the server answers 404, the item
\* counts as done: it is marked for removal, neither its retryCount nor its
\* failure count changes, the pass goes on to the next item of its snapshot,
\* and the filter at the end of the pass takes the item out of the queue in
\* memory and out of the persisted queue
C29_DeleteNotFoundIsDone ==
  [][\A s \in Slots :
       (/\ DrainStep(s)
        /\ StepItem(s).action = "delete"
        /\ drains'[s].how = "notFound") =>
         /\ StepItem(s).id \in drains'[s].successful
         /\ failures'[StepItem(s).id] = failures[StepItem(s).id]
         /\ RetryOf(syncQueue', StepItem(s).id)
              \in {RetryOf(syncQueue, StepItem(s).id), -1}
         /\ drains'[s].items = drains[s].items
         /\ IF drains[s].idx < Len(drains[s].items)
            THEN drains'[s].phase = "loop"
            ELSE /\ drains'[s].phase = "saving"
                 /\ drains'[s].successful \cap QueueIds(syncQueue') = {}
                 /\ drains'[s].successful
                      \cap QueueIds(loadSyncQueue(storedQueue', <<>>)) = {}]_vars

\* a pass whose first item was a delete answered 404 has gone on, sent the
\* second item too and ended: the delete has left the queue without a
\* single failure counted
C29_Witness ==
  \E s \in Slots :
    /\ drains[s].active /\ drains[s].phase = "saving"
    /\ Len(drains[s].items) = 2
    /\ drains[s].items[1].action = "delete"
    /\ drains[s].items[1].retryCount = 0
    /\ failures[drains[s].items[1].id] = 0
    /\ drains[s].items[1].id \in drains[s].successful
    /\ drains[s].items[1].id \notin QueueIds(syncQueue)
    /\ bottles[drains[s].items[1].data.id] = NoRow
    /\ poops[drains[s].items[2].data.id] # NoRow

\* the event type named after the record kind and the operation
EventNamed(type, action) ==
  CASE type = "bottle" /\ action = "create" -> "BOTTLE_ADDED"
    [] type = "bottle" /\ action = "update" -> "BOTTLE_UPDATED"
    [] type = "bottle" /\ action = "delete" -> "BOTTLE_DELETED"
    [] type = "poop" /\ action = "create" -> "POOP_ADDED"
    [] type = "poop" /\ action = "update" -> "POOP_UPDATED"
    [] type = "poop" /\ action = "delete" -> "POOP_DELETED"

\* C30 (as stated): every local mutation that succeeds (its item is then
\* enqueued by the hybrid method) emits, in the step of its write, exactly
\* one change event, whose type is that of the record kind and the
\* operation
C30_MutationEmitsItsEvent ==
  [][Len(syncQueue') = Len(syncQueue) + 1 =>
       emitted' = <<EventNamed(syncQueue'[Len(syncQueue')].type,
                               syncQueue'[Len(syncQueue')].action)>>]_vars

\* C31 (as stated): the step in which the connectivity goes from offline to
\* online starts a pull from the cloud
C31_OnlineStartsPull ==
  [][(~isOnline /\ isOnline') =>
       \E s \in PullSlots : pulls'[s].active /\ ~pulls[s].active]_vars

\* no event of a socket is outstanding: no socket is still connecting and
\* every close the server sent has been delivered
Settled ==
  /\ closing = {}
  /\ \A i \in 1..Len(socks) : socks[i].state # "connecting"

\* C32 (as stated): once the events of the sockets have been delivered, the
\* device holds at most one open socket and status.isConnected is true
\* exactly when the current socket is open
C32_OneSocketStatusAgrees ==
  Settled =>
    /\ Cardinality({i \in 1..Len(socks) : socks[i].state = "open"}) <= 1
    /\ isConnected <=> CurrentOpen(socks, cur)

\* C33 (as stated): every id that getDeviceId has handed to a handshake or
\* to a message is one and the same value, and once no call is under way it
\* is the value that is persisted
C33_DeviceIdStable ==
  /\ Cardinality(presented) <= 1
  /\ (devOps = <<>> /\ presented # {}) => presented = {devStored}

\* the message ids written so far
WireIds == {wire[k].messageId : k \in 1..Len(wire)}

\* C34: a sendRealTimeMessage made while the status is not connected ends at
\* once, and one that finds the current socket not open ends without
\* writing; neither changes the sync queue, its persisted copy or the local
\* store, and no call ends with an error for its caller; a message is
\* written only to an open current socket, one at a time, and carries a
\* message id no earlier message had, the device id of that socket's
\* handshake, the account id and the time of the send
C34_SendWhileDisconnectedIsNoOp ==
  [][/\ (sendPc = "idle" /\ sendOutcome' # sendOutcome /\ ~isConnected) =>
          /\ sendOutcome' = "skipped" /\ sendPc' = "idle"
          /\ UNCHANGED <<wire, syncQueue, storedQueue, entries, poop>>
     /\ (sendPc = "awaiting" /\ sendPc' = "idle") =>
          /\ sendOutcome' \in {"caught", "dropped", "written"}
          /\ ~CurrentOpen(socks, cur) => wire' = wire
          /\ UNCHANGED <<syncQueue, storedQueue, entries, poop>>
     /\ wire' # wire =>
          /\ CurrentOpen(socks, cur)
          /\ Len(wire') = Len(wire) + 1
          /\ SubSeq(wire', 1, Len(wire)) = wire
          /\ LET m == wire'[Len(wire')]
             IN /\ m.messageId \notin WireIds
                /\ m.deviceId = socks[cur].deviceId
                /\ m.userId = AccountId
                /\ m.timestamp = clock]_vars

\* a message was written while the socket was open; a later send, made
\* after the socket had closed, ended at once with nothing written
C34_Witness ==
  /\ Len(wire) = 1
  /\ sendOutcome = "skipped" /\ sendPc = "idle"
  /\ ~isConnected /\ ~CurrentOpen(socks, cur)

\* C35: the server sends a message it received on a connection only to
\* connections that are open, that are not the connection it came from, that
\* belong to the account of the sender and whose device id differs from the
\* sender's
C35_ForwardOnlyToOtherDevicesOfAccount ==
  [][wssMessages' # wssMessages =>
       \A to \in wssRecipients' :
         /\ to # wssSender'
         /\ wssConns[to].readyState = "open"
         /\ wssConns[to].userId = wssConns[wssSender'].userId
         /\ wssConns[to].deviceId # wssConns[wssSender'].deviceId]_vars

\* a message of a connected device was sent to another device of its
\* account while a device of another account was connected and received
\* nothing
C35_Witness ==
  /\ wssSender # 0
  /\ wssConns[wssSender].readyState = "open"
  /\ wssRecipients # {}
  /\ \E k \in WssClients \ wssRecipients :
       /\ wssConns[k].readyState = "open"
       /\ wssConns[k].userId # wssConns[wssSender].userId

\* C36: a step that handles a received real-time message, or a step of the
\* pull such a message started, writes no real-time message, enqueues no
\* sync item and leaves the queue and its persisted copy as they are
C36_ReceivingNeverSends ==
  [][(rtReceived' # rtReceived \/ pulls' # pulls) =>
       /\ rtSent' = rtSent
       /\ syncQueue' = syncQueue
       /\ storedQueue' = storedQueue
       /\ nextItemId' = nextItemId]_vars

\* the device, connected, has sent one message for a mutation of its own
\* and has since handled a message of another device whose pull went
\* through to its completion event: nothing more was sent
C36_Witness ==
  /\ isConnected
  /\ rtSent = 1
  /\ delivered > 0
  /\ syncCompleted > 0
  /\ \A s \in PullSlots : ~pulls[s].active

\* C37: every pass that has started comes to its end, and at that moment
\* the busy flag is down
C37_DrainEndsFlagReset ==
  \A s \in Slots : drains[s].active ~> (~drains[s].active /\ ~isSyncing)

\* a pass has ended with the flag down after an item of it had failed and
\* the save of the queue had been rejected: the persisted queue is not the
\* queue in memory
C37_Witness ==
  /\ ~isSyncing
  /\ \A s \in Slots : ~drains[s].active
  /\ \E k \in ItemIds : failures[k] > 0
  /\ storedQueue # saveSyncQueue(syncQueue)

\* C38: initializeAfterAuth run at any moment leaves the queue with the
\* same items in the same order, each once, and no failed attempt goes
\* uncounted: between passes the retryCount of every queued item is the
\* number of its failed attempts.
C38_ReinitKeepsQueue ==
  /\ [](/\ Cardinality(QueueIds(syncQueue)) = Len(syncQueue)
        /\ ~isSyncing =>
             \A k \in 1..Len(syncQueue) :
               syncQueue[k].retryCount = failures[syncQueue[k].id])
  /\ [][Reinitialize => IdSeq(syncQueue') = IdSeq(syncQueue)]_vars

\* C39: once the database is initialised, every row of the local feeding
\* and diaper tables has a sync_status that is pending, synced or error,
\* the rows the tables held before the column was added included.
C39_SyncStatusInEnum ==
  migrated =>
    /\ \A i \in Present(entries) : entries[i].sync_status \in SyncStatuses
    /\ \A i \in Present(poop) : poop[i].sync_status \in SyncStatuses

\* C40: the persisted flag of the first full sync is 'true' only when the
\* pull of the start that set it fetched the remote records and applied
\* them; after a pull that was skipped or that failed the flag is unset, so
\* that the next start pulls again.
C40_FlagOnlyAfterAppliedPull ==
  /\ hasInitialSync = "true" => startPull = "applied"
  /\ startPull \in {"skipped", "failed"} => hasInitialSync = "null"

====
